---- MODULE Spec2Model ----
(***************************************************************************)
(* CRM-MCP tool pipelines: argument standardization (LLM), query          *)
(* execution (PostgreSQL) and result formatting (LLM), with the debug      *)
(* trace each tool accumulates and the MCPResponse it returns.             *)
(*                                                                         *)
(* Python values are tagged records: None, StrV, IntV, FloatV, ListV, DictV.    *)
(* A dict is a function from its keys; a key that is not in the dict is    *)
(* not in the DOMAIN.  Japanese message texts are written in ASCII.        *)
(***************************************************************************)
EXTENDS Integers, Sequences, FiniteSets, TLC

VARIABLES tool, params, pc, tool_debug, locals, response, outcome, calls,
          open_conns, now, served

vars == <<tool, params, pc, tool_debug, locals, response, outcome, calls,
          open_conns, now, served>>

\* ---------------------------------------------------------------- bounds
MaxRows == 3
MaxRequests == 2
MaxSuspensions == 1

\* ------------------------------------------------------- Python values
None == [ty |-> "none"]
StrV(s) == [ty |-> "str", s |-> s]
IntV(n) == [ty |-> "int", n |-> n]
FloatV(n) == [ty |-> "float", ms |-> n]
ListV(l) == [ty |-> "list", items |-> l]
DictV(d) == [ty |-> "dict", d |-> d]
EmptyDict == [k \in {} |-> None]

Truthy(v) ==
    CASE v.ty = "none" -> FALSE
      [] v.ty = "int" -> v.n # 0
      [] v.ty = "str" -> v.s # ""
      [] v.ty = "list" -> v.items # <<>>
      [] v.ty = "dict" -> DOMAIN v.d # {}
      [] OTHER -> TRUE

Put(d, k, v) == [x \in DOMAIN d \cup {k} |-> IF x = k THEN v ELSE d[x]]
Get(d, k) == IF k \in DOMAIN d THEN d[k] ELSE None
GetDefault(d, k, dflt) == IF k \in DOMAIN d THEN d[k] ELSE dflt

\* str() of a scalar, as an f-string interpolates it
PyStr(v) ==
    CASE v.ty = "none" -> "None"
      [] v.ty = "int" -> ToString(v.n)
      [] v.ty = "str" -> v.s
      [] OTHER -> "<object>"

\* repr() of a scalar, as str() of a container shows its members
PyReprScalar(v) ==
    CASE v.ty = "none" -> "None"
      [] v.ty = "int" -> ToString(v.n)
      [] v.ty = "str" -> "'" \o v.s \o "'"
      [] OTHER -> "<object>"

RECURSIVE JoinRepr(_)
JoinRepr(items) ==
    IF items = <<>> THEN ""
    ELSE IF Len(items) = 1 THEN PyReprScalar(items[1])
    ELSE PyReprScalar(items[1]) \o ", " \o JoinRepr(Tail(items))

KeyOrder == <<"text_input", "days_until_maturity", "maturity_date_from", "maturity_date_to",
              "customer_ids", "amount", "date">>

RECURSIVE PyRepr(_)
RECURSIVE JoinDictRepr(_, _, _)
JoinDictRepr(d, i, first) ==
    IF i > Len(KeyOrder) THEN ""
    ELSE IF KeyOrder[i] \in DOMAIN d
         THEN (IF first THEN "" ELSE ", ") \o "'" \o KeyOrder[i] \o "': "
              \o PyRepr(d[KeyOrder[i]]) \o JoinDictRepr(d, i + 1, FALSE)
         ELSE JoinDictRepr(d, i + 1, first)

PyRepr(v) ==
    CASE v.ty = "list" -> "[" \o JoinRepr(v.items) \o "]"
      [] v.ty = "dict" -> "{" \o JoinDictRepr(v.d, 1, TRUE) \o "}"
      [] OTHER -> PyReprScalar(v)

\* str() of any value: a container shows the repr() of its members
PyStrOf(v) == IF v.ty \in {"list", "dict"} THEN PyRepr(v) ELSE PyStr(v)

\* substring test on texts
Contains(text, sub) ==
    \E i \in 1..(Len(text) - Len(sub) + 1) : SubSeq(text, i, i + Len(sub) - 1) = sub

StartsWith(text, prefix) ==
    Len(text) >= Len(prefix) /\ SubSeq(text, 1, Len(prefix)) = prefix

\* ------------------------------------------------------------ JSON
JsonErr == "Expecting value: line 1 column 1 (char 0)"

\* json.loads on the response texts the model supplies
JsonLoads(text) ==
    CASE text = "{}" -> [ok |-> TRUE, v |-> DictV(EmptyDict)]
      [] text = "{\"days_until_maturity\": 90}" ->
            [ok |-> TRUE, v |-> DictV([days_until_maturity |-> IntV(90)])]
      [] text = "{\"days_until_maturity\": 0}" ->
            [ok |-> TRUE, v |-> DictV([days_until_maturity |-> IntV(0)])]
      [] text = "{\"days_until_maturity\": \"1 day'; DROP TABLE holdings; --\"}" ->
            [ok |-> TRUE,
             v |-> DictV([days_until_maturity |-> StrV("1 day'; DROP TABLE holdings; --")])]
      [] text = "{\"maturity_date_from\": \"2025-01-01\", \"maturity_date_to\": \"2026-12-31\"}" ->
            [ok |-> TRUE, v |-> DictV([maturity_date_from |-> StrV("2025-01-01"),
                                      maturity_date_to |-> StrV("2026-12-31")])]
      [] text = "{\"days_until_maturity\": 30, \"maturity_date_to\": \"2026-12-31\"}" ->
            [ok |-> TRUE, v |-> DictV([days_until_maturity |-> IntV(30),
                                      maturity_date_to |-> StrV("2026-12-31")])]
      [] text = "{\"customer_ids\": [1, 2]}" ->
            [ok |-> TRUE, v |-> DictV([customer_ids |-> ListV(<<IntV(1), IntV(2)>>)])]
      [] text = "{\"customer_ids\": []}" ->
            [ok |-> TRUE, v |-> DictV([customer_ids |-> ListV(<<>>)])]
      [] text = "{\"amount\": 1000000, \"date\": \"2025-12-31\"}" ->
            [ok |-> TRUE, v |-> DictV([amount |-> IntV(1000000), date |-> StrV("2025-12-31")])]
      [] text = "{\"amount\": null, \"date\": null}" ->
            [ok |-> TRUE, v |-> DictV([amount |-> None, date |-> None])]
      [] text = "[1, 2]" -> [ok |-> TRUE, v |-> ListV(<<IntV(1), IntV(2)>>)]
      [] text = "[42]" -> [ok |-> TRUE, v |-> ListV(<<IntV(42)>>)]
      [] text = "[]" -> [ok |-> TRUE, v |-> ListV(<<>>)]
      [] text = "null" -> [ok |-> TRUE, v |-> None]
      [] text = "7" -> [ok |-> TRUE, v |-> IntV(7)]
      [] text = "\"soon\"" -> [ok |-> TRUE, v |-> StrV("soon")]
      [] OTHER -> [ok |-> FALSE, msg |-> JsonErr]

\* ------------------------------------------------------------ names
BOND == "search_customers_by_bond_maturity"
HOLDINGS == "get_customer_holdings"
CASH == "predict_cash_inflow_from_sales_notes"
PRODUCT == "get_customers_by_product_text"
Tools == {BOND, HOLDINGS, CASH, PRODUCT}

\* the arguments of a tools/call request: a mapping or a bare text
Params == {DictV([text_input |-> StrV("within 90 days")]), StrV("customer 42")}

\* str(params)
RawInput(p) == IF p.ty = "str" THEN p.s ELSE PyRepr(p)

\* ------------------------------------------------------ LLM Gateway
LlmErrorPrefix == "LLM error: "
LlmErrorText == LlmErrorPrefix \o "Read timeout on endpoint URL"

\* what can happen inside the try block of a gateway call: invoke_model raises,
\* the body of the response is not JSON, or it has no content[0].text
LlmOutcomes == {"ok", "invoke_error", "body_not_json", "no_content"}
LlmCause(o) ==
    CASE o = "invoke_error" -> "Read timeout on endpoint URL"
      [] o = "body_not_json" -> JsonErr
      [] o = "no_content" -> "'content'"
      [] OTHER -> ""

\* the handler of a gateway call: except Exception
GatewayCatches(e) == TRUE

\* the handler returns str(e) alone, without the sentinel prefix
call_claudeUnprefixed(ok, text) == IF ok = "ok" THEN text ELSE LlmCause(ok)

\* LLMUtil.call_claude: the generated text, or the sentinel on any failure
call_claude(ok, text) == IF ok = "ok" THEN text ELSE LlmErrorPrefix \o LlmCause(ok)

BedrockErrorPrefix == "LLM call error: "

\* utils/llm_client.py call_bedrock_llm
call_bedrock_llm(ok, text) == IF ok = "ok" THEN text ELSE BedrockErrorPrefix \o LlmCause(ok)

\* llm_util.call_llm_simple(full_prompt) -> (text, execution_time)
call_llm_simple(ok, text) == IF ok THEN text ELSE LlmErrorText

\* what the model lets the remote model generate, per stage
BondTexts == {"{}", "{\"days_until_maturity\": 90}", "{\"days_until_maturity\": 0}",
              "{\"days_until_maturity\": \"1 day'; DROP TABLE holdings; --\"}",
              "{\"maturity_date_from\": \"2025-01-01\", \"maturity_date_to\": \"2026-12-31\"}",
              "{\"days_until_maturity\": 30, \"maturity_date_to\": \"2026-12-31\"}",
              "[1, 2]", "null", "7", "\"soon\"",
              "Sure! Here is the JSON you asked for."}
IdListTexts == {"[1, 2]", "[42]", "[]", "{}", "null", "7",
                "{\"customer_ids\": [1, 2]}", "I could not find any id."}
CashTexts == {"{\"customer_ids\": [1, 2]}", "{\"customer_ids\": []}", "{}",
              "[1, 2]", "null", "7", "no json here"}
AnalysisTexts == {"{\"amount\": 1000000, \"date\": \"2025-12-31\"}",
                  "{\"amount\": null, \"date\": null}", "[1, 2]", "not a json answer"}
FormatTexts == {"Customer IDs: 1, 2"}

\* ------------------------------------------------- Prompt Store Client
PromptOutcomes == {"200", "404", "exception"}

\* every answer the remote store can give: 200 with a prompt_text, 200 without the
\* field, 200 with a body that is not JSON, 404, another status, no answer at all
PromptResponses == PromptOutcomes \cup {"200_no_prompt_text", "200_not_json", "500"}

\* what the try block of a prompt lookup raises, "" when it raises nothing
PromptRaises(o) ==
    CASE o = "exception" -> "ConnectError"
      [] o = "200_no_prompt_text" -> "'prompt_text'"
      [] o = "200_not_json" -> JsonErr
      [] OTHER -> ""

\* the handler catches the transport error only
PromptCatchesTransportOnly(e) == e = "ConnectError"

\* the handler of a prompt lookup: except Exception
PromptCatches(e) == TRUE

\* utils/system_prompt.py
get_system_prompt(prompt_key, o) ==
    IF o = "200" THEN "prompt<" \o prompt_key \o ">"
    ELSE IF PromptRaises(o) # ""
         THEN "system prompt unavailable (key: " \o prompt_key \o ", error: "
              \o PromptRaises(o) \o ")"
         ELSE "system prompt unavailable (key: " \o prompt_key \o ", status: " \o o \o ")"

_get_fallback_prompt(prompt_key) ==
    IF Contains(prompt_key, "pre")
    THEN "Convert input to standard format. Respond in JSON only."
    ELSE "Format the results in a readable text format."

\* utils/database.py
db_get_system_prompt(prompt_key, o) ==
    IF o = "200" THEN "prompt<" \o prompt_key \o ">"
    ELSE _get_fallback_prompt(prompt_key)

\* ------------------------------------------------------ Query Executor
Row(i) == [customer_id |-> i, name |-> "customer" \o ToString(i),
           sales_note |-> "note" \o ToString(i)]
Rows(n) == [i \in 1..n |-> Row(i)]
DbOutcomes == {"connect_fail", "execute_fail"} \cup {ToString(n) : n \in 0..MaxRows}
RowsOf(o) ==
    IF o \in {"connect_fail", "execute_fail"} THEN <<>>
    ELSE CHOOSE r \in {Rows(n) : n \in 0..MaxRows} : ToString(Len(r)) = o

ConnectError == "500: Database connection failed"
ExecuteError == "psycopg2.OperationalError: server closed the connection unexpectedly"

\* -------------------------------------------------------- MCPResponse
MCPResponse(result, debug_response, error) ==
    [id |-> None, result |-> result, error |-> error, debug_response |-> debug_response]

NoResponse == [ty |-> "pending"]

NoLocals == [k \in {} |-> None]
\* what the collaborators saw of this request: the number of calls of each kind,
\* the database errors raised and the texts the per-item analysis calls returned
ZeroCalls == [llm_standardize |-> 0, llm_analysis |-> 0, llm_format |-> 0,
              prompt |-> 0, db_connect |-> 0, db_execute |-> 0, db_errors |-> 0,
              analysis_log |-> <<>>]
Bump(c, k) == [c EXCEPT ![k] = @ + 1]

\* an error of cursor.execute is swallowed and the query yields no rows
QueryResultSwallowed(o) ==
    IF o = "connect_fail"
    THEN [raised |-> TRUE, e |-> ConnectError, connected |-> FALSE, rows |-> <<>>]
    ELSE [raised |-> FALSE, e |-> "", connected |-> TRUE, rows |-> RowsOf(o)]

\* get_db_connection, cursor.execute and fetchall under outcome o
QueryResult(o) ==
    IF o = "connect_fail"
    THEN [raised |-> TRUE, e |-> ConnectError, connected |-> FALSE, rows |-> <<>>]
    ELSE IF o = "execute_fail"
    THEN [raised |-> TRUE, e |-> ExecuteError, connected |-> TRUE, rows |-> <<>>]
    ELSE [raised |-> FALSE, e |-> "", connected |-> TRUE, rows |-> RowsOf(o)]

\* the calls a query stage under outcome o adds
DbCalls(c, o) ==
    IF o = "connect_fail" THEN Bump(Bump(c, "db_connect"), "db_errors")
    ELSE IF o = "execute_fail"
    THEN Bump(Bump(Bump(c, "db_connect"), "db_execute"), "db_errors")
    ELSE Bump(Bump(c, "db_connect"), "db_execute")

elapsed == FloatV(now + 1 - locals.start_time)

\* ---------------------------------------------------------------- Init
Init ==
    /\ tool = "none"
    /\ params = None
    /\ pc = "idle"
    /\ tool_debug = EmptyDict
    /\ locals = NoLocals
    /\ response = NoResponse
    /\ outcome = "none"
    /\ calls = ZeroCalls
    /\ open_conns = 0
    /\ now = 0
    /\ served = 0

\* a return statement of a pipeline
Return(resp, how, td) ==
    /\ response' = resp
    /\ outcome' = how
    /\ tool_debug' = td
    /\ pc' = "done"
    /\ now' = now + 1
    /\ served' = served + 1

\* =====================================================================
\* tools/bond_maturity.py
\* =====================================================================
BondInitDebug ==
    [format_request |-> None, standardize_prompt |-> None,
     standardize_response |-> None, standardize_parameter |-> None,
     executed_query |-> None, executed_query_results |-> None,
     format_response |-> None, execution_time_ms |-> None, results_count |-> None]

\* the standardize stage is left out and the query runs on absent filters
InvokeBondSkipsStandardize ==
    /\ pc = "idle"
    /\ tool' = BOND
    /\ \E p \in Params : params' = p
    /\ tool_debug' = BondInitDebug
    /\ locals' = [start_time |-> now, standardized_params |-> DictV(EmptyDict),
                  days_until_maturity |-> None, maturity_date_from |-> None,
                  maturity_date_to |-> None]
    /\ pc' = "query"
    /\ now' = now + 1
    /\ UNCHANGED <<response, outcome, calls, open_conns, served>>

\* lines 12-30: entry, start_time and the trace created outside the try
InvokeBond ==
    /\ pc = "idle"
    /\ tool' = BOND
    /\ \E p \in Params : params' = p
    /\ tool_debug' = BondInitDebug
    /\ locals' = [start_time |-> now]
    /\ pc' = "std_prompt"
    /\ now' = now + 1
    /\ UNCHANGED <<response, outcome, calls, open_conns, served>>

\* the except branch sets only the error field and leaves result unset
BondExceptNoResult(td, e) ==
    LET td1 == Put(Put(td, "execution_time_ms", elapsed), "results_count", IntV(0))
    IN Return(MCPResponse(None, DictV(td1), StrV(e)), "ERROR", td1)

\* lines 61-71: the except branch
BondExcept(td, e) ==
    LET td1 == Put(Put(td, "execution_time_ms", elapsed), "results_count", IntV(0))
    IN Return(MCPResponse(StrV("bond maturity search error: " \o e), DictV(td1), StrV(e)),
              "ERROR", td1)

\* the JSONDecodeError handler returns None instead of the empty mapping
BondParseFallbackNone == None

\* line 99: what a JSONDecodeError is turned into
BondParseFallback == DictV(EmptyDict)

\* line 78: the pre prompt
StandardizeBondPrompt ==
    /\ pc = "std_prompt" /\ tool = BOND
    /\ \E o \in PromptOutcomes :
         locals' = Put(locals, "system_prompt",
                       get_system_prompt("search_customers_by_bond_maturity_pre", o))
    /\ calls' = Bump(calls, "prompt")
    /\ pc' = "std_llm"
    /\ now' = now + 1
    /\ UNCHANGED <<tool, params, tool_debug, response, outcome, open_conns, served>>

\* a parsed value that is not a mapping is replaced by the empty mapping and the
\* pipeline goes on to the query
StandardizeBondLlmCoerces ==
    /\ pc = "std_llm" /\ tool = BOND
    /\ calls' = Bump(calls, "llm_standardize")
    /\ UNCHANGED <<tool, params, open_conns>>
    /\ \E ok \in LlmOutcomes, text \in BondTexts :
         LET resp == call_claude(ok, text)
             full_prompt_text == locals.system_prompt \o "\n\nUser Input: "
                                 \o RawInput(params)
             td1 == Put(Put(tool_debug, "standardize_prompt", StrV(full_prompt_text)),
                        "standardize_response", StrV(resp))
             parsed == JsonLoads(resp)
             standardized_params == IF parsed.ok /\ parsed.v.ty = "dict"
                                    THEN parsed.v ELSE BondParseFallback
             td2 == Put(td1, "standardize_parameter",
                        IF parsed.ok THEN StrV(PyStrOf(parsed.v))
                        ELSE StrV("JSON parse error: " \o parsed.msg))
         IN /\ locals' =
                 Put(Put(Put(Put(locals,
                     "standardized_params", standardized_params),
                     "days_until_maturity",
                         Get(standardized_params.d, "days_until_maturity")),
                     "maturity_date_from",
                         Get(standardized_params.d, "maturity_date_from")),
                     "maturity_date_to",
                         Get(standardized_params.d, "maturity_date_to"))
            /\ tool_debug' = td2
            /\ pc' = "query"
            /\ now' = now + 1
            /\ UNCHANGED <<response, outcome, served>>

\* lines 81-99 and 34-39: the LLM call, the parse and the extraction of the fields
StandardizeBondLlm ==
    /\ pc = "std_llm" /\ tool = BOND
    /\ calls' = Bump(calls, "llm_standardize")
    /\ UNCHANGED <<tool, params, open_conns>>
    /\ \E ok \in LlmOutcomes, text \in BondTexts :
         LET resp == call_claude(ok, text)
             full_prompt_text == locals.system_prompt \o "\n\nUser Input: "
                                 \o RawInput(params)
             td1 == Put(Put(tool_debug, "standardize_prompt", StrV(full_prompt_text)),
                        "standardize_response", StrV(resp))
             parsed == JsonLoads(resp)
             standardized_params == IF parsed.ok THEN parsed.v ELSE BondParseFallback
             td2 == Put(td1, "standardize_parameter",
                        IF parsed.ok THEN StrV(PyStrOf(parsed.v))
                        ELSE StrV("JSON parse error: " \o parsed.msg))
         IN IF standardized_params.ty # "dict"
            THEN /\ BondExcept(td2, "'" \o standardized_params.ty
                                        \o "' object has no attribute 'get'")
                 /\ locals' = Put(locals, "standardized_params", standardized_params)
            ELSE /\ locals' =
                      Put(Put(Put(Put(locals,
                          "standardized_params", standardized_params),
                          "days_until_maturity",
                              Get(standardized_params.d, "days_until_maturity")),
                          "maturity_date_from",
                              Get(standardized_params.d, "maturity_date_from")),
                          "maturity_date_to",
                              Get(standardized_params.d, "maturity_date_to"))
                 /\ tool_debug' = td2
                 /\ pc' = "query"
                 /\ now' = now + 1
                 /\ UNCHANGED <<response, outcome, served>>

BondBaseQuery ==
    " SELECT DISTINCT c.customer_id, c.name, c.email, c.phone, c.risk_tolerance,"
    \o " h.maturity_date, p.product_name, p.product_type FROM customers c"
    \o " JOIN holdings h ON c.customer_id = h.customer_id"
    \o " JOIN products p ON h.product_id = p.product_id"
    \o " WHERE p.product_type ILIKE '%<saiken>%' OR p.product_type ILIKE '%bond%' "

\* the day-count clause is added whenever the field is present, 0 included
BondQueryNotNone(days_until_maturity, maturity_date_from, maturity_date_to) ==
    BondBaseQuery
    \o (IF days_until_maturity # None
        THEN " AND h.maturity_date <= CURRENT_DATE + INTERVAL '"
             \o PyStr(days_until_maturity) \o " days'"
        ELSE "")
    \o (IF Truthy(maturity_date_from) THEN " AND h.maturity_date >= %s" ELSE "")
    \o (IF Truthy(maturity_date_to) THEN " AND h.maturity_date <= %s" ELSE "")
    \o " ORDER BY h.maturity_date ASC"

\* lines 107-128: the query text
BondQuery(days_until_maturity, maturity_date_from, maturity_date_to) ==
    BondBaseQuery
    \o (IF Truthy(days_until_maturity)
        THEN " AND h.maturity_date <= CURRENT_DATE + INTERVAL '"
             \o PyStr(days_until_maturity) \o " days'"
        ELSE "")
    \o (IF Truthy(maturity_date_from) THEN " AND h.maturity_date >= %s" ELSE "")
    \o (IF Truthy(maturity_date_to) THEN " AND h.maturity_date <= %s" ELSE "")
    \o " ORDER BY h.maturity_date ASC"

\* lines 115-126: the bound parameters
BondQueryParams(maturity_date_from, maturity_date_to) ==
    (IF Truthy(maturity_date_from) THEN <<maturity_date_from>> ELSE <<>>)
    \o (IF Truthy(maturity_date_to) THEN <<maturity_date_to>> ELSE <<>>)

\* lines 101-164: connect, build, execute, fetch, close, convert the rows
ExecuteBondMaturityQuery ==
    /\ pc = "query" /\ tool = BOND
    /\ UNCHANGED <<tool, params>>
    /\ \E o \in DbOutcomes :
         LET query == BondQuery(locals.days_until_maturity, locals.maturity_date_from,
                                locals.maturity_date_to)
             query_params == BondQueryParams(locals.maturity_date_from,
                                             locals.maturity_date_to)
             td1 == Put(tool_debug, "executed_query", StrV(query))
             r == QueryResult(o)
         IN /\ calls' = DbCalls(calls, o)
            /\ IF r.raised /\ ~r.connected
               THEN /\ BondExcept(tool_debug, r.e)
                    /\ UNCHANGED <<locals, open_conns>>
               ELSE IF r.raised
               THEN /\ open_conns' = open_conns + 1
                    /\ locals' = Put(Put(locals, "query", query),
                                     "query_params", query_params)
                    /\ BondExcept(td1, r.e)
               ELSE
                 /\ locals' = Put(Put(Put(locals, "query", query),
                                      "query_params", query_params),
                                  "customers", r.rows)
                 /\ tool_debug' = Put(td1, "executed_query_results", ListV(r.rows))
                 /\ pc' = "format"
                 /\ now' = now + 1
                 /\ UNCHANGED <<response, outcome, open_conns, served>>

BondNoResults == "bond maturity search result: no matching customers."

\* the result text carries the time at which it was produced
BondReturnStamped(td, result_text) ==
    LET td1 == Put(Put(td, "execution_time_ms", elapsed),
                   "results_count", IntV(Len(locals.customers)))
    IN Return(MCPResponse(StrV(result_text \o " (at " \o ToString(now) \o ")"),
                          DictV(td1), None), "DONE", td1)

\* lines 52-59: the normal return
BondReturn(td, result_text) ==
    LET td1 == Put(Put(td, "execution_time_ms", elapsed),
                   "results_count", IntV(Len(locals.customers)))
    IN Return(MCPResponse(StrV(result_text), DictV(td1), None), "DONE", td1)

\* lines 166-179: the empty check, the post prompt and format_request
FormatBondMaturityResults ==
    /\ pc = "format" /\ tool = BOND
    /\ UNCHANGED <<tool, params, open_conns>>
    /\ IF locals.customers = <<>>
       THEN /\ BondReturn(tool_debug, BondNoResults)
            /\ UNCHANGED <<locals, calls>>
       ELSE /\ \E o \in PromptOutcomes :
                 LET system_prompt ==
                         get_system_prompt("search_customers_by_bond_maturity_post", o)
                     full_prompt == system_prompt \o "\n\nData:\n<json of "
                                    \o ToString(Len(locals.customers)) \o " rows>"
                 IN /\ locals' = Put(locals, "full_prompt", full_prompt)
                    /\ tool_debug' = Put(tool_debug, "format_request", StrV(full_prompt))
            /\ calls' = Bump(calls, "prompt")
            /\ pc' = "fmt_llm"
            /\ now' = now + 1
            /\ UNCHANGED <<response, outcome, served>>

\* lines 182-189 and 52-59: the format LLM call and the return
FormatBondLlm ==
    /\ pc = "fmt_llm" /\ tool = BOND
    /\ calls' = Bump(calls, "llm_format")
    /\ UNCHANGED <<tool, params, locals, open_conns>>
    /\ \E ok \in BOOLEAN, text \in FormatTexts :
         LET result_text == call_llm_simple(ok, text)
         IN BondReturn(Put(tool_debug, "format_response", StrV(result_text)), result_text)

\* =====================================================================
\* tools/customer_holdings.py
\* =====================================================================
\* lines 57-62: entry; this tool has no trace before its return statements
InvokeHoldings ==
    /\ pc = "idle"
    /\ tool' = HOLDINGS
    /\ \E p \in Params : params' = p
    /\ tool_debug' = EmptyDict
    /\ locals' = [start_time |-> now]
    /\ pc' = "std_prompt"
    /\ now' = now + 1
    /\ UNCHANGED <<response, outcome, calls, open_conns, served>>

\* lines 150-164: the except branch builds a new trace and passes no error
HoldingsExcept(e) ==
    LET td == [error |-> StrV(e), error_type |-> StrV("Exception"),
               execution_time_ms |-> elapsed, results_count |-> IntV(0)]
    IN Return(MCPResponse(StrV("customer holdings error: " \o e), DictV(td), None),
              "ERROR", td)

\* lines 16-19: the pre prompt and the full prompt
StandardizeCustomerPrompt ==
    /\ pc = "std_prompt" /\ tool = HOLDINGS
    /\ \E o \in PromptOutcomes :
         LET system_prompt == db_get_system_prompt("get_customer_holdings_pre", o)
         IN locals' = Put(locals, "full_prompt",
                          system_prompt \o "\n\nUser Input: " \o RawInput(params))
    /\ calls' = Bump(calls, "prompt")
    /\ pc' = "std_llm"
    /\ now' = now + 1
    /\ UNCHANGED <<tool, params, tool_debug, response, outcome, open_conns, served>>

HoldingsUnresolved == "could not identify the customer, not executed"

\* the stop tests "customer_ids is None" instead of emptiness
HoldingsStopIsNone(customer_ids) == customer_ids = None

\* line 69: if not customer_ids
HoldingsStop(customer_ids) == ~Truthy(customer_ids)

\* lines 22-36 and 66-81: the LLM call, the parse and the empty-identifier stop
StandardizeCustomerLlm ==
    /\ pc = "std_llm" /\ tool = HOLDINGS
    /\ calls' = Bump(calls, "llm_standardize")
    /\ UNCHANGED <<tool, params, open_conns>>
    /\ \E ok \in BOOLEAN, text \in IdListTexts :
         LET resp == call_llm_simple(ok, text)
             parsed == JsonLoads(resp)
             customer_ids == IF parsed.ok /\ parsed.v.ty = "list" THEN parsed.v
                             ELSE ListV(<<>>)
             standardize_parameter ==
                 IF parsed.ok THEN PyRepr(customer_ids)
                 ELSE "LLM response JSON parse failure: " \o parsed.msg
             locals1 == Put(Put(Put(locals, "customer_ids", customer_ids),
                                "standardize_response", resp),
                            "standardize_parameter", standardize_parameter)
         IN /\ locals' = locals1
            /\ IF HoldingsStop(customer_ids)
               THEN LET td == [error |-> StrV("customer id extraction failed"),
                               standardize_prompt |-> StrV(locals.full_prompt),
                               standardize_response |-> StrV(resp),
                               execution_time_ms |-> elapsed,
                               results_count |-> IntV(0)]
                    IN Return(MCPResponse(StrV(HoldingsUnresolved), DictV(td), None),
                              "STOP", td)
               ELSE /\ pc' = "query"
                    /\ now' = now + 1
                    /\ UNCHANGED <<tool_debug, response, outcome, served>>

RECURSIVE Placeholders(_)
\* ",".join(["%s"] * n)
Placeholders(n) ==
    IF n = 0 THEN "" ELSE IF n = 1 THEN "%s" ELSE "%s," \o Placeholders(n - 1)

\* lines 88-99
HoldingsQuery(customer_ids) ==
    " SELECT h.holding_id, h.quantity, h.unit_price, h.current_price, h.current_value,"
    \o " h.purchase_date, h.customer_id, p.product_code, p.product_name, p.product_type,"
    \o " p.currency, c.name as customer_name FROM holdings h"
    \o " JOIN products p ON h.product_id = p.product_id"
    \o " JOIN customers c ON h.customer_id = c.customer_id"
    \o " WHERE h.customer_id IN (" \o Placeholders(Len(customer_ids.items)) \o ")"
    \o " ORDER BY h.customer_id, h.current_value DESC "

\* lines 83-126: connect, build, execute, fetch, close, convert the rows
ExecuteHoldingsQuery ==
    /\ pc = "query" /\ tool = HOLDINGS
    /\ UNCHANGED <<tool, params>>
    /\ \E o \in DbOutcomes :
         LET query == HoldingsQuery(locals.customer_ids)
             r == QueryResult(o)
         IN /\ calls' = DbCalls(calls, o)
            /\ IF r.raised /\ ~r.connected
               THEN /\ HoldingsExcept(r.e)
                    /\ UNCHANGED <<locals, open_conns>>
               ELSE IF r.raised
               THEN /\ open_conns' = open_conns + 1
                    /\ locals' = Put(locals, "query", query)
                    /\ HoldingsExcept(r.e)
               ELSE
                 /\ locals' = Put(Put(locals, "query", query), "holdings", r.rows)
                 /\ pc' = "format"
                 /\ now' = now + 1
                 /\ UNCHANGED <<tool_debug, response, outcome, open_conns, served>>

HoldingsNoResults == "holdings search result: no matching holdings."

\* lines 131-148: the trace is built here, then the normal return
HoldingsReturn(result_text) ==
    LET td == [executed_query |-> StrV(locals.query),
               executed_query_results |-> ListV(locals.holdings),
               format_response |-> StrV(result_text),
               standardize_prompt |-> StrV(locals.full_prompt),
               standardize_response |-> StrV(locals.standardize_response),
               standardize_parameter |-> StrV(locals.standardize_parameter),
               execution_time_ms |-> elapsed,
               results_count |-> IntV(Len(locals.holdings))]
    IN Return(MCPResponse(StrV(result_text), DictV(td), None), "DONE", td)

\* llm_util.get_system_prompt as format_customer_holdings_results calls it
llm_util_get_system_prompt(prompt_key, o) ==
    IF o = "200" THEN "prompt<" \o prompt_key \o ">"
    ELSE _get_fallback_prompt(prompt_key)

\* lines 38-48: the empty check, the post prompt and the full prompt
FormatCustomerHoldingsResults ==
    /\ pc = "format" /\ tool = HOLDINGS
    /\ UNCHANGED <<tool, params, open_conns>>
    /\ IF locals.holdings = <<>>
       THEN /\ HoldingsReturn(HoldingsNoResults)
            /\ UNCHANGED <<locals, calls>>
       ELSE /\ \E o \in PromptOutcomes :
                 LET system_prompt ==
                         llm_util_get_system_prompt("get_customer_holdings_post", o)
                 IN locals' = Put(locals, "format_prompt",
                                  system_prompt \o "\n\nData:\n<json of "
                                  \o ToString(Len(locals.holdings)) \o " rows>")
            /\ calls' = Bump(calls, "prompt")
            /\ pc' = "fmt_llm"
            /\ now' = now + 1
            /\ UNCHANGED <<tool_debug, response, outcome, served>>

\* lines 51-55 and 131-148: the format LLM call and the return
FormatHoldingsLlm ==
    /\ pc = "fmt_llm" /\ tool = HOLDINGS
    /\ calls' = Bump(calls, "llm_format")
    /\ UNCHANGED <<tool, params, locals, open_conns>>
    /\ \E ok \in BOOLEAN, text \in FormatTexts :
         HoldingsReturn(call_llm_simple(ok, text))

\* =====================================================================
\* tools/product_customers.py
\* (the nested trace is flattened: step1_extract_ids.llm_request is one key)
\* =====================================================================
ProductInitDebug ==
    ("function_name" :> StrV(PRODUCT))
    @@ ("step1_extract_ids.llm_request" :> None)
    @@ ("step1_extract_ids.llm_response" :> None)
    @@ ("step1_extract_ids.execution_time_ms" :> IntV(0))
    @@ ("step1_extract_ids.result" :> None)
    @@ ("step2_sql_execution.sql_query" :> None)
    @@ ("step2_sql_execution.sql_parameters" :> None)
    @@ ("step2_sql_execution.execution_time_ms" :> IntV(0))
    @@ ("step2_sql_execution.result" :> None)
    @@ ("step3_format_results.llm_request" :> None)
    @@ ("step3_format_results.llm_response" :> None)
    @@ ("step3_format_results.execution_time_ms" :> IntV(0))
    @@ ("step3_format_results.result" :> None)
    @@ ("total_execution_time_ms" :> IntV(0))
    @@ ("error" :> None)

\* lines 92-101
ProductQuery(n) ==
    " SELECT h.product_id, p.product_name, h.customer_id, c.customer_name,"
    \o " h.quantity, h.current_value FROM holdings h"
    \o " JOIN customers c ON h.customer_id = c.customer_id"
    \o " JOIN products p ON h.product_id = p.product_id"
    \o " WHERE h.product_id IN (" \o Placeholders(n) \o ")"
    \o " ORDER BY h.product_id, h.current_value DESC "

\* lines 13-49: entry, start time and the trace created outside the try
InvokeProduct ==
    /\ pc = "idle"
    /\ tool' = PRODUCT
    /\ \E p \in Params :
         /\ params' = p
         /\ tool_debug' = Put(ProductInitDebug, "input_params.text_input", p)
    /\ locals' = [start_time |-> now]
    /\ pc' = "std_prompt"
    /\ now' = now + 1
    /\ UNCHANGED <<response, outcome, calls, open_conns, served>>

\* the except branch records the error but not the elapsed time
ProductExceptNoTime(td, e) ==
    LET td1 == Put(td, "error", StrV(e))
    IN Return(MCPResponse(StrV("error while processing: " \o e), DictV(td1),
                          StrV("error while processing: " \o e)),
              "ERROR", td1)

\* lines 142-149: the except branch
ProductExcept(td, e) ==
    LET td1 == Put(Put(td, "error", StrV(e)), "total_execution_time_ms", elapsed)
    IN Return(MCPResponse(StrV("error while processing: " \o e), DictV(td1),
                          StrV("error while processing: " \o e)),
              "ERROR", td1)

\* lines 53-60
TextInputStr(text_input) ==
    IF text_input.ty = "dict"
    THEN IF "text_input" \in DOMAIN text_input.d
         THEN PyStr(text_input.d["text_input"])
         ELSE PyRepr(text_input)
    ELSE RawInput(text_input)

\* lines 53-71: the input text, the extraction prompt and llm_request
ExtractIdsPrompt ==
    /\ pc = "std_prompt" /\ tool = PRODUCT
    /\ \E o \in PromptOutcomes :
         LET text_input_str == TextInputStr(params)
             extract_prompt == get_system_prompt("customer_by_product_extract_ids", o)
             combined_request == extract_prompt \o "\n\ninput text: " \o text_input_str
         IN /\ locals' = Put(Put(locals, "text_input_str", text_input_str),
                             "extract_prompt", extract_prompt)
            /\ tool_debug' = Put(Put(tool_debug, "processed_input", StrV(text_input_str)),
                                 "step1_extract_ids.llm_request", StrV(combined_request))
    /\ calls' = Bump(calls, "prompt")
    /\ pc' = "std_llm"
    /\ now' = now + 1
    /\ UNCHANGED <<tool, params, response, outcome, open_conns, served>>

ProductUnresolved == "no product id was extracted"

\* line 81: if not product_ids
ProductStop(product_ids) == ~Truthy(product_ids)

\* lines 74-103: the LLM call, the parse, the empty-identifier stop, the query text
ExtractIdsLlm ==
    /\ pc = "std_llm" /\ tool = PRODUCT
    /\ calls' = Bump(calls, "llm_standardize")
    /\ UNCHANGED <<tool, params, open_conns>>
    /\ \E ok \in LlmOutcomes, text \in IdListTexts :
         LET ids_response == call_claude(ok, text)
             td1 == Put(Put(tool_debug, "step1_extract_ids.llm_response", StrV(ids_response)),
                        "step1_extract_ids.execution_time_ms", FloatV(1))
             parsed == JsonLoads(ids_response)
         IN IF ~parsed.ok
            THEN /\ ProductExcept(td1, parsed.msg)
                 /\ UNCHANGED locals
            ELSE LET product_ids == parsed.v
                     td2 == Put(td1, "step1_extract_ids.result", product_ids)
                 IN IF ProductStop(product_ids)
                    THEN LET td3 == Put(Put(td2, "error", StrV(ProductUnresolved)),
                                        "total_execution_time_ms", elapsed)
                         IN /\ Return(MCPResponse(StrV(ProductUnresolved), DictV(td3),
                                                  StrV(ProductUnresolved)),
                                      "STOP", td3)
                            /\ locals' = Put(locals, "product_ids", product_ids)
                    ELSE IF product_ids.ty \notin {"list", "dict", "str"}
                    THEN /\ ProductExcept(td2, "object of type '" \o product_ids.ty
                                               \o "' has no len()")
                         /\ locals' = Put(locals, "product_ids", product_ids)
                    ELSE LET n == IF product_ids.ty = "list" THEN Len(product_ids.items)
                                  ELSE IF product_ids.ty = "dict"
                                       THEN Cardinality(DOMAIN product_ids.d)
                                       ELSE Len(product_ids.s)
                             query == ProductQuery(n)
                         IN /\ locals' = Put(Put(locals, "product_ids", product_ids),
                                             "query", query)
                            /\ tool_debug' =
                                   Put(Put(td2, "step2_sql_execution.sql_query", StrV(query)),
                                       "step2_sql_execution.sql_parameters", product_ids)
                            /\ pc' = "query"
                            /\ now' = now + 1
                            /\ UNCHANGED <<response, outcome, served>>

\* lines 105-118: connect, execute, fetch, close
ExecuteProductQuery ==
    /\ pc = "query" /\ tool = PRODUCT
    /\ UNCHANGED <<tool, params>>
    /\ \E o \in DbOutcomes :
         LET r == QueryResult(o)
         IN
         /\ locals.product_ids.ty # "list" => o \in {"connect_fail", "execute_fail"}
         /\ calls' = DbCalls(calls, o)
         /\ IF r.raised /\ ~r.connected
            THEN /\ ProductExcept(tool_debug, r.e)
                 /\ UNCHANGED <<locals, open_conns>>
            ELSE IF r.raised
            THEN /\ open_conns' = open_conns + 1
                 /\ ProductExcept(tool_debug, r.e)
                 /\ UNCHANGED locals
            ELSE
              /\ locals' = Put(locals, "customers", r.rows)
              /\ tool_debug' =
                     Put(Put(tool_debug, "step2_sql_execution.execution_time_ms", FloatV(1)),
                         "step2_sql_execution.result", ListV(r.rows))
              /\ pc' = "format"
              /\ now' = now + 1
              /\ UNCHANGED <<response, outcome, open_conns, served>>

\* lines 121-127: the format prompt and llm_request, whatever the number of rows
FormatProductPrompt ==
    /\ pc = "format" /\ tool = PRODUCT
    /\ \E o \in PromptOutcomes :
         LET format_prompt == get_system_prompt("customer_by_product_format_results", o)
             customers == locals.customers
             combined_request == format_prompt \o "\n\ninput data: <json of "
                                 \o ToString(Len(customers)) \o " rows>"
         IN tool_debug' = Put(tool_debug, "step3_format_results.llm_request",
                              StrV(combined_request))
    /\ calls' = Bump(calls, "prompt")
    /\ pc' = "fmt_llm"
    /\ now' = now + 1
    /\ UNCHANGED <<tool, params, locals, response, outcome, open_conns, served>>

\* a sentinel returned by the gateway is re-thrown into the except branch
FormatProductLlmRethrows ==
    /\ pc = "fmt_llm" /\ tool = PRODUCT
    /\ calls' = Bump(calls, "llm_format")
    /\ UNCHANGED <<tool, params, locals, open_conns>>
    /\ \E ok \in LlmOutcomes, text \in FormatTexts :
         LET formatted_response == call_claude(ok, text)
             td1 == Put(Put(Put(Put(tool_debug,
                        "step3_format_results.llm_response", StrV(formatted_response)),
                        "step3_format_results.execution_time_ms", FloatV(1)),
                        "step3_format_results.result", StrV(formatted_response)),
                        "total_execution_time_ms", elapsed)
         IN IF ok = "ok"
            THEN Return(MCPResponse(StrV(formatted_response), DictV(td1), None), "DONE", td1)
            ELSE ProductExcept(tool_debug, formatted_response)

\* a sentinel returned by the gateway makes the format call be issued again
FormatProductLlmRetries ==
    /\ pc = "fmt_llm" /\ tool = PRODUCT
    /\ calls' = Bump(calls, "llm_format")
    /\ UNCHANGED <<tool, params, locals, open_conns>>
    /\ \E ok \in LlmOutcomes, text \in FormatTexts :
         LET formatted_response == call_claude(ok, text)
             td1 == Put(Put(Put(Put(tool_debug,
                        "step3_format_results.llm_response", StrV(formatted_response)),
                        "step3_format_results.execution_time_ms", FloatV(1)),
                        "step3_format_results.result", StrV(formatted_response)),
                        "total_execution_time_ms", elapsed)
         IN IF ok = "ok"
            THEN Return(MCPResponse(StrV(formatted_response), DictV(td1), None), "DONE", td1)
            ELSE /\ now' = now + 1
                 /\ UNCHANGED <<pc, tool_debug, response, outcome, served>>

\* lines 130-140: the format LLM call and the normal return
FormatProductLlm ==
    /\ pc = "fmt_llm" /\ tool = PRODUCT
    /\ calls' = Bump(calls, "llm_format")
    /\ UNCHANGED <<tool, params, locals, open_conns>>
    /\ \E ok \in LlmOutcomes, text \in FormatTexts :
         LET formatted_response == call_claude(ok, text)
             td1 == Put(Put(Put(Put(tool_debug,
                        "step3_format_results.llm_response", StrV(formatted_response)),
                        "step3_format_results.execution_time_ms", FloatV(1)),
                        "step3_format_results.result", StrV(formatted_response)),
                        "total_execution_time_ms", elapsed)
         IN Return(MCPResponse(StrV(formatted_response), DictV(td1), None), "DONE", td1)

\* =====================================================================
\* tools/cash_inflow_prediction.py
\* =====================================================================
CashInitDebug ==
    [standardize_prompt |-> None, standardize_response |-> None,
     standardize_parameter |-> None, executed_query |-> None,
     executed_query_results |-> None, format_request |-> None,
     format_response |-> None, execution_time_ms |-> None, results_count |-> None,
     customers_analyzed |-> None, llm_analysis_calls |-> None,
     predictions_found |-> None, individual_analysis |-> ListV(<<>>)]

\* lines 12-34: entry, start_time and the trace created outside the try
InvokeCash ==
    /\ pc = "idle"
    /\ tool' = CASH
    /\ \E p \in Params : params' = p
    /\ tool_debug' = CashInitDebug
    /\ locals' = [start_time |-> now]
    /\ pc' = "std_prompt"
    /\ now' = now + 1
    /\ UNCHANGED <<response, outcome, calls, open_conns, served>>

\* lines 58-68: the except branch
CashExcept(td, e) ==
    LET td1 == Put(Put(td, "execution_time_ms", elapsed), "results_count", IntV(0))
    IN Return(MCPResponse(StrV("cash inflow prediction error: " \o e), DictV(td1), StrV(e)),
              "ERROR", td1)

\* line 96: what a JSONDecodeError is turned into
CashParseFallback == DictV([customer_ids |-> ListV(<<>>)])

\* line 75: the pre prompt
StandardizeCashPrompt ==
    /\ pc = "std_prompt" /\ tool = CASH
    /\ \E o \in PromptOutcomes :
         locals' = Put(locals, "system_prompt",
                       get_system_prompt("cash_inflow_prediction_pre", o))
    /\ calls' = Bump(calls, "prompt")
    /\ pc' = "std_llm"
    /\ now' = now + 1
    /\ UNCHANGED <<tool, params, tool_debug, response, outcome, open_conns, served>>

\* lines 78-96 and 38-41: the LLM call, the parse and customer_ids
StandardizeCashLlm ==
    /\ pc = "std_llm" /\ tool = CASH
    /\ calls' = Bump(calls, "llm_standardize")
    /\ UNCHANGED <<tool, params, open_conns>>
    /\ \E ok \in LlmOutcomes, text \in CashTexts :
         LET resp == call_claude(ok, text)
             full_prompt_text == locals.system_prompt \o "\n\nUser Input: "
                                 \o RawInput(params)
             td1 == Put(Put(tool_debug, "standardize_prompt", StrV(full_prompt_text)),
                        "standardize_response", StrV(resp))
             parsed == JsonLoads(resp)
             standardized_params == IF parsed.ok THEN parsed.v ELSE CashParseFallback
             td2 == Put(td1, "standardize_parameter",
                        IF parsed.ok THEN StrV(PyStrOf(parsed.v))
                        ELSE StrV("JSON parse error: " \o parsed.msg))
         IN IF standardized_params.ty # "dict"
            THEN /\ CashExcept(td2, "'" \o standardized_params.ty
                                        \o "' object has no attribute 'get'")
                 /\ locals' = Put(locals, "standardized_params", standardized_params)
            ELSE /\ locals' = Put(locals, "customer_ids",
                                  GetDefault(standardized_params.d, "customer_ids",
                                             ListV(<<>>)))
                 /\ tool_debug' = td2
                 /\ pc' = "query"
                 /\ now' = now + 1
                 /\ UNCHANGED <<response, outcome, served>>

\* lines 113-120
CashQuery(n) ==
    " SELECT c.customer_id, c.name, sn.content as sales_note FROM customers c"
    \o " JOIN sales_notes sn ON c.customer_id = sn.customer_id"
    \o " WHERE c.customer_id IN (" \o Placeholders(n) \o ")"
    \o " ORDER BY c.customer_id "

\* the statistics are written after the loop but not the predictions
CashLoopEndNoResults(td, rows, llm_calls, predictions_found, individual_analysis, predictions) ==
    Put(Put(Put(Put(td,
        "customers_analyzed", IntV(Len(rows))),
        "llm_analysis_calls", IntV(llm_calls)),
        "predictions_found", IntV(predictions_found)),
        "individual_analysis", ListV(individual_analysis))

\* llm_analysis_calls is written from the count of the predictions found
CashLoopEndCountsFound(td, rows, llm_calls, predictions_found, individual_analysis, predictions) ==
    Put(Put(Put(Put(Put(td,
        "customers_analyzed", IntV(Len(rows))),
        "llm_analysis_calls", IntV(predictions_found)),
        "predictions_found", IntV(predictions_found)),
        "individual_analysis", ListV(individual_analysis)),
        "executed_query_results", ListV(predictions))

\* lines 196-203: the statistics written after the loop
CashLoopEnd(td, rows, llm_calls, predictions_found, individual_analysis, predictions) ==
    Put(Put(Put(Put(Put(td,
        "customers_analyzed", IntV(Len(rows))),
        "llm_analysis_calls", IntV(llm_calls)),
        "predictions_found", IntV(predictions_found)),
        "individual_analysis", ListV(individual_analysis)),
        "executed_query_results", ListV(predictions))

\* the empty check is left out: the connection is opened and the query executed
\* also for an empty identifier list
ExecuteCashQueryAlwaysConnects ==
    /\ pc = "query" /\ tool = CASH
    /\ UNCHANGED <<tool, params>>
    /\ \E o \in DbOutcomes :
         LET query == CashQuery(IF locals.customer_ids.ty = "list"
                                THEN Len(locals.customer_ids.items) ELSE 0)
             td1 == Put(tool_debug, "executed_query", StrV(query))
             r == QueryResult(o)
         IN /\ calls' = DbCalls(calls, o)
            /\ IF r.raised /\ ~r.connected
               THEN /\ CashExcept(tool_debug, r.e)
                    /\ UNCHANGED <<locals, open_conns>>
               ELSE IF r.raised
               THEN /\ open_conns' = open_conns + 1
                    /\ CashExcept(td1, r.e)
                    /\ locals' = Put(locals, "query", query)
               ELSE
                 /\ locals' = Put(Put(locals, "query", query),
                                  "customers_with_notes", r.rows)
                 /\ tool_debug' = td1
                 /\ pc' = "analysis_prompt"
                 /\ now' = now + 1
                 /\ UNCHANGED <<response, outcome, open_conns, served>>

\* lines 98-132: the empty check, connect, build, execute, fetch, close
ExecuteCashQuery ==
    /\ pc = "query" /\ tool = CASH
    /\ UNCHANGED <<tool, params>>
    /\ IF ~Truthy(locals.customer_ids)
       THEN /\ tool_debug' = Put(Put(Put(tool_debug,
                                 "customers_analyzed", IntV(0)),
                                 "llm_analysis_calls", IntV(0)),
                                 "predictions_found", IntV(0))
            /\ locals' = Put(locals, "predictions", <<>>)
            /\ pc' = "format"
            /\ now' = now + 1
            /\ UNCHANGED <<response, outcome, calls, open_conns, served>>
       ELSE \E o \in DbOutcomes :
              LET query == CashQuery(Len(locals.customer_ids.items))
                  td1 == Put(tool_debug, "executed_query", StrV(query))
                  r == QueryResult(o)
              IN /\ calls' = DbCalls(calls, o)
                 /\ IF r.raised /\ ~r.connected
                    THEN /\ CashExcept(tool_debug, r.e)
                         /\ UNCHANGED <<locals, open_conns>>
                    ELSE IF r.raised
                    THEN /\ open_conns' = open_conns + 1
                         /\ CashExcept(td1, r.e)
                         /\ locals' = Put(locals, "query", query)
                    ELSE
                      /\ locals' = Put(Put(locals, "query", query),
                                       "customers_with_notes", r.rows)
                      /\ tool_debug' = td1
                      /\ pc' = "analysis_prompt"
                      /\ now' = now + 1
                      /\ UNCHANGED <<response, outcome, open_conns, served>>

\* lines 135-140 (and 196-203 when no row was fetched): the analysis prompt
AnalysisPrompt ==
    /\ pc = "analysis_prompt" /\ tool = CASH
    /\ calls' = Bump(calls, "prompt")
    /\ now' = now + 1
    /\ UNCHANGED <<tool, params, response, outcome, open_conns, served>>
    /\ \E o \in PromptOutcomes :
         locals' = Put(Put(Put(Put(Put(Put(locals, "i", 1),
                       "analysis_prompt",
                           get_system_prompt("cash_inflow_prediction_analysis", o)),
                       "predictions", <<>>),
                       "individual_analysis", <<>>),
                       "llm_calls", 0),
                       "predictions_found", 0)
    /\ IF locals.customers_with_notes = <<>>
       THEN /\ tool_debug' = CashLoopEnd(tool_debug, <<>>, 0, 0, <<>>, <<>>)
            /\ pc' = "format"
       ELSE /\ pc' = "analysis"
            /\ UNCHANGED tool_debug

\* the except branch of the loop records the error but appends no prediction
FailedPredictionDropped(customer) == <<>>

\* lines 189-194: the prediction the except branch of the loop appends
FailedPrediction(customer) ==
    <<[customer_id |-> customer.customer_id, customer_name |-> customer.name,
       predicted_amount |-> None, predicted_date |-> None]>>

\* lines 143-194 (and 196-203 after the last row): one iteration of the loop
AnalyzeCustomer ==
    /\ pc = "analysis" /\ tool = CASH
    /\ now' = now + 1
    /\ UNCHANGED <<tool, params, response, outcome, open_conns, served>>
    /\ \E ok \in LlmOutcomes, text \in AnalysisTexts :
         LET rows == locals.customers_with_notes
             customer == rows[locals.i]
             prediction_response == call_claude(ok, text)
             llm_calls == locals.llm_calls + 1
             parsed == JsonLoads(prediction_response)
             raised == ~parsed.ok \/ parsed.v.ty # "dict"
             e == IF ~parsed.ok THEN parsed.msg
                  ELSE "'" \o parsed.v.ty \o "' object has no attribute 'get'"
             amount == IF raised THEN None ELSE Get(parsed.v.d, "amount")
             date == IF raised THEN None ELSE Get(parsed.v.d, "date")
             analysis_entry ==
                 IF raised
                 THEN [customer_id |-> customer.customer_id,
                       customer_name |-> customer.name, error |-> e]
                 ELSE [customer_id |-> customer.customer_id,
                       customer_name |-> customer.name,
                       llm_response |-> prediction_response,
                       parsed_amount |-> amount, parsed_date |-> date]
             prediction_data == [customer_id |-> customer.customer_id,
                                 customer_name |-> customer.name,
                                 predicted_amount |-> amount, predicted_date |-> date]
             individual_analysis == Append(locals.individual_analysis, analysis_entry)
             predictions == IF raised
                            THEN locals.predictions \o FailedPrediction(customer)
                            ELSE Append(locals.predictions, prediction_data)
             predictions_found == IF ~raised /\ amount # None
                                  THEN locals.predictions_found + 1
                                  ELSE locals.predictions_found
         IN /\ calls' = [calls EXCEPT !.llm_analysis = @ + 1,
                                      !.analysis_log = Append(@, prediction_response)]
            /\ locals' = [locals EXCEPT !.predictions = predictions,
                                        !.individual_analysis = individual_analysis,
                                        !.llm_calls = llm_calls,
                                        !.predictions_found = predictions_found,
                                        !.i = @ + 1]
            /\ IF locals.i = Len(rows)
               THEN /\ tool_debug' = CashLoopEnd(tool_debug, rows, llm_calls,
                                                 predictions_found, individual_analysis,
                                                 predictions)
                    /\ pc' = "format"
               ELSE /\ pc' = "analysis"
                    /\ UNCHANGED tool_debug

CashNoResults == "cash inflow analysis result: no sales notes found for the customers."

\* lines 49-56: the normal return
CashReturn(td, result_text) ==
    LET td1 == Put(Put(td, "execution_time_ms", elapsed),
                   "results_count", IntV(Len(locals.predictions)))
    IN Return(MCPResponse(StrV(result_text), DictV(td1), None), "DONE", td1)

\* lines 205-219: the empty check, the post prompt and format_request
FormatCashInflowPredictionResults ==
    /\ pc = "format" /\ tool = CASH
    /\ UNCHANGED <<tool, params, open_conns>>
    /\ IF locals.predictions = <<>>
       THEN /\ CashReturn(tool_debug, CashNoResults)
            /\ UNCHANGED <<locals, calls>>
       ELSE /\ \E o \in PromptOutcomes :
                 LET system_prompt == get_system_prompt("cash_inflow_prediction_post", o)
                     full_prompt == system_prompt \o "\n\nData:\n<json of "
                                    \o ToString(Len(locals.predictions)) \o " rows>"
                 IN /\ locals' = Put(locals, "full_prompt", full_prompt)
                    /\ tool_debug' = Put(tool_debug, "format_request", StrV(full_prompt))
            /\ calls' = Bump(calls, "prompt")
            /\ pc' = "fmt_llm"
            /\ now' = now + 1
            /\ UNCHANGED <<response, outcome, served>>

\* lines 222-229 and 49-56: the format LLM call and the return
FormatCashLlm ==
    /\ pc = "fmt_llm" /\ tool = CASH
    /\ calls' = Bump(calls, "llm_format")
    /\ UNCHANGED <<tool, params, locals, open_conns>>
    /\ \E ok \in BOOLEAN, text \in FormatTexts :
         LET result_text == call_llm_simple(ok, text)
         IN CashReturn(Put(tool_debug, "format_response", StrV(result_text)), result_text)

\* the response is sent; every entity of the request is discarded
Reset ==
    /\ pc = "done"
    /\ served < MaxRequests
    /\ UNCHANGED served
    /\ tool' = "none"
    /\ params' = None
    /\ pc' = "idle"
    /\ tool_debug' = EmptyDict
    /\ locals' = NoLocals
    /\ response' = NoResponse
    /\ outcome' = "none"
    /\ calls' = ZeroCalls
    /\ open_conns' = 0
    /\ now' = 0

Next ==
    \/ InvokeBond
    \/ StandardizeBondPrompt
    \/ StandardizeBondLlm
    \/ ExecuteBondMaturityQuery
    \/ FormatBondMaturityResults
    \/ FormatBondLlm
    \/ InvokeHoldings
    \/ StandardizeCustomerPrompt
    \/ StandardizeCustomerLlm
    \/ ExecuteHoldingsQuery
    \/ FormatCustomerHoldingsResults
    \/ FormatHoldingsLlm
    \/ InvokeProduct
    \/ ExtractIdsPrompt
    \/ ExtractIdsLlm
    \/ ExecuteProductQuery
    \/ FormatProductPrompt
    \/ FormatProductLlm
    \/ InvokeCash
    \/ StandardizeCashPrompt
    \/ StandardizeCashLlm
    \/ ExecuteCashQuery
    \/ AnalysisPrompt
    \/ AnalyzeCustomer
    \/ FormatCashInflowPredictionResults
    \/ FormatCashLlm
    \/ Reset

Spec == Init /\ [][Next]_vars

\* =====================================================================
\* The LLM Gateway and the Prompt Store Client called on their own
\* =====================================================================
GatewayTexts == BondTexts \cup IdListTexts \cup CashTexts \cup AnalysisTexts \cup FormatTexts

PreKeys == {"search_customers_by_bond_maturity_pre", "get_customer_holdings_pre",
            "cash_inflow_prediction_pre"}
PostKeys == {"search_customers_by_bond_maturity_post", "get_customer_holdings_post",
             "cash_inflow_prediction_post"}
PromptKeys == PreKeys \cup PostKeys
                \cup {"cash_inflow_prediction_analysis", "customer_by_product_extract_ids",
                      "customer_by_product_format_results"}

UtilInit ==
    /\ tool = "none"
    /\ params = None
    /\ pc = "caller"
    /\ tool_debug = EmptyDict
    /\ locals = NoLocals
    /\ response = NoResponse
    /\ outcome = "none"
    /\ calls = ZeroCalls
    /\ open_conns = 0
    /\ now = 0
    /\ served = 0

\* a call of fn under remote outcome o: what it raised past its handler, and
\* what it returned
Called(fn, input, o, e, caught, returned) ==
    /\ pc = "caller"
    /\ pc' = "returned"
    /\ locals' = [fn |-> fn, input |-> input, o |-> o,
                  raised |-> e # "" /\ ~caught, returned |-> returned]
    /\ UNCHANGED <<tool, params, tool_debug, response, outcome, calls, open_conns,
                   now, served>>

\* llm_util.py lines 53-92
CallClaude ==
    \E o \in LlmOutcomes, text \in GatewayTexts :
        Called("call_claude", text, o, LlmCause(o), GatewayCatches(LlmCause(o)),
               call_claude(o, text))

\* llm_client.py lines 14-55
CallBedrockLlm ==
    \E o \in LlmOutcomes, text \in GatewayTexts :
        Called("call_bedrock_llm", text, o, LlmCause(o), GatewayCatches(LlmCause(o)),
               call_bedrock_llm(o, text))

\* system_prompt.py lines 3-19
GetSystemPrompt ==
    \E o \in PromptResponses, key \in PromptKeys :
        Called("system_prompt.get_system_prompt", key, o, PromptRaises(o),
               PromptCatches(PromptRaises(o)), get_system_prompt(key, o))

\* database.py lines 39-62
DbGetSystemPrompt ==
    \E o \in PromptResponses, key \in PromptKeys :
        Called("database.get_system_prompt", key, o, PromptRaises(o),
               PromptCatches(PromptRaises(o)), db_get_system_prompt(key, o))

\* the caller goes on to its next call
CallerContinues ==
    /\ pc = "returned"
    /\ pc' = "caller"
    /\ locals' = NoLocals
    /\ UNCHANGED <<tool, params, tool_debug, response, outcome, calls, open_conns,
                   now, served>>

UtilNext ==
    \/ CallClaude
    \/ CallBedrockLlm
    \/ GetSystemPrompt
    \/ DbGetSystemPrompt
    \/ CallerContinues

UtilSpec == UtilInit /\ [][UtilNext]_vars

\* =====================================================================
\* main.py, crm_mcp_server.py: the /mcp endpoint
\* =====================================================================
MAIN == "main.py"
SERVER == "crm_mcp_server.py"
Servers == {MAIN, SERVER}

RequestIds == {1, 2, 3}
Methods == {"initialize", "tools/list", "tools/call", "resources/list"}
ToolNames == Tools \cup {"search_customers", "search_customers_by_maturity",
                         "search_sales_notes", "get_cash_inflows", "no_such_tool"}

\* params of a request: absent (the default {}), or a name and its arguments
RequestParams ==
    {DictV(EmptyDict)}
    \cup {DictV([name |-> StrV(n), arguments |-> a]) : n \in ToolNames, a \in Params}

MCPRequest(id, method, p) == [id |-> id, method |-> method, params |-> p]

\* what the awaited tool function does: it returns its response, it returns the
\* response of its own except branch, or an exception leaves it
ToolOutcomes(server) ==
    IF server = MAIN THEN {"response", "error_response", "raises"}
    ELSE {"response", "raises"}

ToolRaised == "400: customer_id is required"

ToolResult(t) ==
    IF t = "response"
    THEN MCPResponse(StrV("Customer IDs: 1, 2"), DictV([results_count |-> IntV(2)]), None)
    ELSE MCPResponse(StrV("bond maturity search error: " \o ExecuteError),
                     DictV([results_count |-> IntV(0)]), StrV(ExecuteError))

\* MCPResponse(id=request.id, ...), and result.id = request.id
WithId(resp, id) == [resp EXCEPT !.id = IntV(id)]

InitializeResult ==
    DictV([protocolVersion |-> StrV("2024-11-05"), capabilities |-> DictV(EmptyDict),
           serverInfo |-> DictV([name |-> StrV("CRM-MCP"), version |-> StrV("1.0.0")])])

ToolEntry(n) == DictV([name |-> StrV(n)])

\* main.py lines 49-68: the result of tools/list
MainToolsList ==
    DictV([tools |-> ListV(<<ToolEntry(BOND), ToolEntry(HOLDINGS)>>)])

\* crm_mcp_server.py lines 188-240
list_available_tools ==
    DictV([tools |-> ListV(<<ToolEntry("search_customers"), ToolEntry(HOLDINGS),
                             ToolEntry(BOND), ToolEntry("search_customers_by_maturity")>>)])

UnknownTool(tool_name) == "Unknown tool: " \o PyStr(tool_name)
UnknownMethod(method) == "Unknown method: " \o method

\* the response of a called tool is returned with the id the tool left in it
main_mcp_endpointKeepsToolId(request, t) ==
    LET method == request.method
        request_params == request.params
        tool_name == Get(request_params.d, "name")
    IN CASE method = "initialize" ->
              WithId(MCPResponse(InitializeResult, None, None), request.id)
         [] method = "tools/list" ->
              WithId(MCPResponse(MainToolsList, None, None), request.id)
         [] method = "tools/call" ->
              IF tool_name \in {StrV(BOND), StrV(HOLDINGS)}
              THEN IF t = "raises"
                   THEN WithId(MCPResponse(StrV("server error: " \o ToolRaised),
                                           DictV([error |-> StrV(ToolRaised),
                                                  error_type |-> StrV("HTTPException"),
                                                  method |-> StrV(method),
                                                  params |-> request_params]),
                                           None), request.id)
                   ELSE ToolResult(t)
              ELSE WithId(MCPResponse(None, None, StrV(UnknownTool(tool_name))),
                          request.id)
         [] OTHER ->
              WithId(MCPResponse(None, None, StrV(UnknownMethod(method))), request.id)

\* main.py lines 21-116
main_mcp_endpoint(request, t) ==
    LET method == request.method
        request_params == request.params
        tool_name == Get(request_params.d, "name")
    IN CASE method = "initialize" ->
              WithId(MCPResponse(InitializeResult, None, None), request.id)
         [] method = "tools/list" ->
              WithId(MCPResponse(MainToolsList, None, None), request.id)
         [] method = "tools/call" ->
              IF tool_name \in {StrV(BOND), StrV(HOLDINGS)}
              THEN IF t = "raises"
                   THEN WithId(MCPResponse(StrV("server error: " \o ToolRaised),
                                           DictV([error |-> StrV(ToolRaised),
                                                  error_type |-> StrV("HTTPException"),
                                                  method |-> StrV(method),
                                                  params |-> request_params]),
                                           None), request.id)
                   ELSE WithId(ToolResult(t), request.id)
              ELSE WithId(MCPResponse(None, None, StrV(UnknownTool(tool_name))),
                          request.id)
         [] OTHER ->
              WithId(MCPResponse(None, None, StrV(UnknownMethod(method))), request.id)

\* crm_mcp_server.py lines 107-136: the names tools/call dispatches
ServerDispatched ==
    {StrV("search_customers"), StrV(HOLDINGS), StrV(BOND),
     StrV("search_sales_notes"), StrV("get_cash_inflows")}

\* crm_mcp_server.py lines 71-186
crm_mcp_server_mcp_endpoint(request, t) ==
    LET method == request.method
        request_params == request.params
        tool_name == Get(request_params.d, "name")
    IN CASE method = "tools/call" ->
              IF tool_name \in ServerDispatched
              THEN IF t = "raises"
                   THEN WithId(MCPResponse(None, None, StrV(ToolRaised)), request.id)
                   ELSE WithId(ToolResult(t), request.id)
              ELSE WithId(MCPResponse(None, None, StrV(UnknownTool(tool_name))),
                          request.id)
         [] method = "tools/list" ->
              WithId(MCPResponse(list_available_tools, None, None), request.id)
         [] OTHER ->
              WithId(MCPResponse(None, None, StrV(UnknownMethod(method))), request.id)

EndpointInit ==
    /\ tool = "none"
    /\ params = None
    /\ pc = "listening"
    /\ tool_debug = EmptyDict
    /\ locals = NoLocals
    /\ response = NoResponse
    /\ outcome = "none"
    /\ calls = ZeroCalls
    /\ open_conns = 0
    /\ now = 0
    /\ served = 0

\* a POST /mcp arrives at one of the servers
Receive ==
    /\ pc = "listening"
    /\ \E server \in Servers, id \in RequestIds, method \in Methods, p \in RequestParams :
         /\ locals' = [server |-> server, request |-> MCPRequest(id, method, p)]
         /\ params' = p
    /\ pc' = "received"
    /\ UNCHANGED <<tool, tool_debug, response, outcome, calls, open_conns, now, served>>

\* main.py: the handler runs to its return
MainMcpEndpoint ==
    /\ pc = "received" /\ locals.server = MAIN
    /\ \E t \in ToolOutcomes(MAIN) :
         /\ response' = main_mcp_endpoint(locals.request, t)
         /\ locals' = Put(locals, "t", t)
    /\ tool' = PyStr(Get(params.d, "name"))
    /\ pc' = "responded"
    /\ UNCHANGED <<params, tool_debug, outcome, calls, open_conns, now, served>>

\* crm_mcp_server.py: the handler runs to its return
ServerMcpEndpoint ==
    /\ pc = "received" /\ locals.server = SERVER
    /\ \E t \in ToolOutcomes(SERVER) :
         /\ response' = crm_mcp_server_mcp_endpoint(locals.request, t)
         /\ locals' = Put(locals, "t", t)
    /\ tool' = PyStr(Get(params.d, "name"))
    /\ pc' = "responded"
    /\ UNCHANGED <<params, tool_debug, outcome, calls, open_conns, now, served>>

\* the response is sent and the server waits for the next request
Sent ==
    /\ pc = "responded"
    /\ pc' = "listening"
    /\ tool' = "none"
    /\ params' = None
    /\ locals' = NoLocals
    /\ response' = NoResponse
    /\ UNCHANGED <<tool_debug, outcome, calls, open_conns, now, served>>

EndpointNext ==
    \/ Receive
    \/ MainMcpEndpoint
    \/ ServerMcpEndpoint
    \/ Sent

EndpointSpec == EndpointInit /\ [][EndpointNext]_vars

\* =====================================================================
\* Concurrent invocations: each request is a coroutine with its own frame (its
\* arguments, locals and trace); the event loop runs one coroutine at a time and
\* may switch to another one where the running one awaits
\* =====================================================================
Frame ==
    [tool |-> tool, params |-> params, pc |-> pc, tool_debug |-> tool_debug,
     locals |-> locals, response |-> response, outcome |-> outcome]

IdleFrame ==
    [tool |-> "none", params |-> None, pc |-> "idle", tool_debug |-> EmptyDict,
     locals |-> NoLocals, response |-> NoResponse, outcome |-> "none"]

NoFrame == [pc |-> "absent"]

\* the event loop resumes the coroutine of frame f
Resume(f) ==
    /\ tool' = f.tool
    /\ params' = f.params
    /\ pc' = f.pc
    /\ tool_debug' = f.tool_debug
    /\ locals' = f.locals
    /\ response' = f.response
    /\ outcome' = f.outcome

\* the locals of the analysis loop, which change from one iteration to the next
LoopLocals == {"i", "llm_calls", "predictions_found", "individual_analysis", "predictions"}

IsPrefix(a, b) == Len(a) <= Len(b) /\ SubSeq(b, 1, Len(a)) = a

\* the answers the collaborators give to the requests of this scenario: the
\* prompt store answers every lookup, the remote model gives one of a few
\* answers or fails, and a query returns at most one row
ConcStandardizeTexts ==
    {"{\"days_until_maturity\": 90}", "{\"customer_ids\": [1, 2]}", "{}", "[1, 2]",
     call_claude("invoke_error", "")}
ConcAnalysisTexts ==
    {"{\"amount\": 1000000, \"date\": \"2025-12-31\"}", call_claude("invoke_error", "")}

SmallAnswers(f) ==
    /\ f.tool \in {"none", BOND, CASH}
    /\ \A k \in DOMAIN f.locals \cap {"system_prompt", "analysis_prompt", "full_prompt"} :
           StartsWith(f.locals[k], "prompt<")
    /\ Get(f.tool_debug, "standardize_response")
           \in {None} \cup {StrV(t) : t \in ConcStandardizeTexts}
    /\ "customers" \in DOMAIN f.locals => Len(f.locals.customers) <= 1
    /\ "customers_with_notes" \in DOMAIN f.locals =>
           Len(f.locals.customers_with_notes) <= 1

\* the other request of the pair is one that every stage serves without a failure
ServedWell(f) ==
    /\ f.params \in {None, DictV([text_input |-> StrV("within 90 days")])}
    /\ f.outcome # "ERROR"
    /\ "days_until_maturity" \in DOMAIN f.locals => Truthy(f.locals.days_until_maturity)
    /\ "customer_ids" \in DOMAIN f.locals => Truthy(f.locals.customer_ids)
    /\ "customers" \in DOMAIN f.locals => Len(f.locals.customers) = 1
    /\ "customers_with_notes" \in DOMAIN f.locals =>
           Len(f.locals.customers_with_notes) = 1
    /\ "individual_analysis" \in DOMAIN f.locals =>
           \A j \in DOMAIN f.locals.individual_analysis :
               "llm_response" \in DOMAIN f.locals.individual_analysis[j]
    /\ Get(f.tool_debug, "format_response") \in {None} \cup {StrV(t) : t \in FormatTexts}

\* frame f is given the input and, as far as it got, the external answers that
\* the invocation of frame a was given
Follows(f, a) ==
    /\ f.pc = "idle" \/ (f.tool = a.tool /\ f.params = a.params)
    /\ \A k \in DOMAIN f.locals \ (LoopLocals \cup {"start_time"}) :
           k \in DOMAIN a.locals /\ f.locals[k] = a.locals[k]
    /\ \A k \in DOMAIN f.locals \cap {"individual_analysis", "predictions"} :
           k \in DOMAIN a.locals /\ IsPrefix(f.locals[k], a.locals[k])

\* the first request is served alone; the next two are served together, and the
\* first of the two repeats the request that was served alone
ConcInit ==
    /\ tool = "none"
    /\ params = None
    /\ pc = "idle"
    /\ tool_debug = EmptyDict
    /\ locals = NoLocals
    /\ response = NoResponse
    /\ outcome = "none"
    /\ calls = ZeroCalls @@ [alone |-> NoFrame, suspended |-> NoFrame,
                             running |-> "alone", suspensions |-> 0]
    /\ open_conns = 0
    /\ now = 0
    /\ served = 0

First == IF calls.running = "first" THEN Frame ELSE calls.suspended
Second == IF calls.running = "second" THEN Frame ELSE calls.suspended

Together == calls.running \in {"first", "second"}

Bounded ==
    /\ SmallAnswers(Frame)
    /\ \A j \in DOMAIN calls.analysis_log : calls.analysis_log[j] \in ConcAnalysisTexts
    /\ calls.running = "first" => Follows(Frame, calls.alone)
    /\ calls.running = "second" => ServedWell(Frame)

\* a step of the running coroutine, from one await to the next
Step(A) == A /\ Bounded'

\* the request served alone has been answered; two requests arrive
ServeTogether ==
    /\ pc = "done" /\ calls.running = "alone"
    /\ calls' = [calls EXCEPT !.alone = Frame, !.suspended = IdleFrame,
                              !.running = "first"]
    /\ Resume(IdleFrame)
    /\ UNCHANGED <<open_conns, now, served>>

\* the trace is one object of the module, which every coroutine writes to
SwitchSharedTrace ==
    /\ Together
    /\ calls.suspended.pc # "done"
    /\ pc \in {"idle", "done"} \/ calls.suspensions < MaxSuspensions
    /\ calls' = [calls EXCEPT
                   !.suspended = Frame,
                   !.running = IF @ = "first" THEN "second" ELSE "first",
                   !.suspensions = IF pc \in {"idle", "done"} THEN @ ELSE @ + 1]
    /\ tool' = calls.suspended.tool
    /\ params' = calls.suspended.params
    /\ pc' = calls.suspended.pc
    /\ locals' = calls.suspended.locals
    /\ response' = calls.suspended.response
    /\ outcome' = calls.suspended.outcome
    /\ UNCHANGED <<tool_debug, open_conns, now, served>>

\* the running coroutine awaits and the event loop resumes the other one
Switch ==
    /\ Together
    /\ calls.suspended.pc # "done"
    /\ pc \in {"idle", "done"} \/ calls.suspensions < MaxSuspensions
    /\ calls' = [calls EXCEPT
                   !.suspended = Frame,
                   !.running = IF @ = "first" THEN "second" ELSE "first",
                   !.suspensions = IF pc \in {"idle", "done"} THEN @ ELSE @ + 1]
    /\ Resume(calls.suspended)
    /\ UNCHANGED <<open_conns, now, served>>

ConcNext ==
    \/ Step(InvokeBond)
    \/ Step(StandardizeBondPrompt)
    \/ Step(StandardizeBondLlm)
    \/ Step(ExecuteBondMaturityQuery)
    \/ Step(FormatBondMaturityResults)
    \/ Step(FormatBondLlm)
    \/ Step(InvokeCash)
    \/ Step(StandardizeCashPrompt)
    \/ Step(StandardizeCashLlm)
    \/ Step(ExecuteCashQuery)
    \/ Step(AnalysisPrompt)
    \/ Step(AnalyzeCustomer)
    \/ Step(FormatCashInflowPredictionResults)
    \/ Step(FormatCashLlm)
    \/ ServeTogether
    \/ Switch

ConcSpec == ConcInit /\ [][ConcNext]_vars

\* =====================================================================
\* Properties
\* =====================================================================
Done == pc = "done"
IdentifierRequired == tool \in {HOLDINGS, PRODUCT}
IdsKey == IF tool = HOLDINGS THEN "customer_ids" ELSE "product_ids"
EmptyIdentifierSet ==
    IdentifierRequired /\ IdsKey \in DOMAIN locals /\ ~Truthy(locals[IdsKey])
Unresolved == IF tool = HOLDINGS THEN HoldingsUnresolved ELSE ProductUnresolved
StdPromptSlot ==
    IF tool = PRODUCT THEN "step1_extract_ids.llm_request" ELSE "standardize_prompt"
StdResponseSlot ==
    IF tool = PRODUCT THEN "step1_extract_ids.llm_response" ELSE "standardize_response"
FormatRequestSlot ==
    IF tool = PRODUCT THEN "step3_format_results.llm_request" ELSE "format_request"
FormatResponseSlot ==
    IF tool = PRODUCT THEN "step3_format_results.llm_response" ELSE "format_response"
FetchedKey ==
    IF tool = HOLDINGS THEN "holdings"
    ELSE IF tool = CASH THEN "customers_with_notes" ELSE "customers"
QueryReturned == tool \in Tools /\ FetchedKey \in DOMAIN locals
NoResultsSentences == {BondNoResults, HoldingsNoResults, CashNoResults}
AnalysisFailed(text) ==
    \/ StartsWith(text, LlmErrorPrefix)
    \/ ~JsonLoads(text).ok
    \/ JsonLoads(text).v.ty # "dict"

\* C1: every returned response has a string in result and a debug trace,
\* whichever of the standardize call, the parse, the query and the format call failed
Inv_C1 ==
    Done => /\ response # NoResponse
            /\ response.result.ty = "str"
            /\ response.debug_response.ty = "dict"

W_C1 ==
    /\ Done /\ outcome = "ERROR" /\ calls.db_errors = 1
    /\ response.result.ty = "str" /\ response.debug_response.ty = "dict"

\* C2: a response returned from the except branch of any tool carries the error
\* message as its result text and in its error field
Claim_C2 ==
    (Done /\ outcome = "ERROR") =>
        /\ response.error # None
        /\ response.result.ty = "str"
        /\ Contains(response.result.s, response.error.s)

\* C3: an ERROR response after the standardize stage completed still has the
\* standardize prompt and response in its trace, and nothing in the format slots
Claim_C3 ==
    (Done /\ outcome = "ERROR" /\ calls.db_connect > 0) =>
        /\ Get(response.debug_response.d, StdPromptSlot) # None
        /\ Get(response.debug_response.d, StdResponseSlot) # None
        /\ Get(response.debug_response.d, FormatRequestSlot) = None
        /\ Get(response.debug_response.d, FormatResponseSlot) = None

\* C4: when the query returned zero rows no format LLM call is made, the result
\* is the fixed no-results sentence and the format slots of the trace stay null
Claim_C4 ==
    (Done /\ QueryReturned /\ locals[FetchedKey] = <<>>) =>
        /\ calls.llm_format = 0
        /\ response.result.s \in NoResultsSentences
        /\ Get(response.debug_response.d, FormatRequestSlot) = None
        /\ Get(response.debug_response.d, FormatResponseSlot) = None

\* C5: an identifier-required tool whose standardize stage yields an empty
\* identifier set returns its fixed could-not-resolve message and never opens a
\* database connection or executes a query
Inv_C5 ==
    EmptyIdentifierSet =>
        /\ Done
        /\ response.result = StrV(Unresolved)
        /\ calls.db_connect = 0
        /\ calls.db_execute = 0
        /\ open_conns = 0

W_C5 ==
    /\ Done /\ tool = HOLDINGS /\ EmptyIdentifierSet
    /\ locals.customer_ids = ListV(<<>>)
    /\ response.result = StrV(HoldingsUnresolved)
    /\ calls.db_connect = 0

\* C6: the response returned for an empty identifier set has a null error field
Claim_C6 ==
    (Done /\ EmptyIdentifierSet) => response.error = None

\* C7: the SQL text of the bond-maturity query never contains the value of
\* days_until_maturity; a day-count that filters is among the bound parameters
Claim_C7 ==
    (tool = BOND /\ "query" \in DOMAIN locals /\ locals.days_until_maturity # None) =>
        /\ ~Contains(locals.query, PyStr(locals.days_until_maturity))
        /\ Truthy(locals.days_until_maturity) =>
               \E i \in DOMAIN locals.query_params :
                   locals.query_params[i] = locals.days_until_maturity

\* C8: after the cash-inflow loop, whichever per-item analyses failed, the
\* pipeline is not in ERROR and has one prediction and one sub-trace per fetched
\* row, in row order, the failed rows with null amount and date
Inv_C8 ==
    (tool = CASH /\ QueryReturned /\ pc \in {"format", "fmt_llm", "done"}) =>
        LET rows == locals.customers_with_notes
            predictions == tool_debug.executed_query_results
            sub == tool_debug.individual_analysis
        IN /\ outcome # "ERROR"
           /\ predictions.ty = "list" /\ Len(predictions.items) = Len(rows)
           /\ sub.ty = "list" /\ Len(sub.items) = Len(rows)
           /\ Len(calls.analysis_log) = Len(rows)
           /\ \A i \in 1..Len(rows) :
                /\ predictions.items[i].customer_id = rows[i].customer_id
                /\ sub.items[i].customer_id = rows[i].customer_id
                /\ AnalysisFailed(calls.analysis_log[i]) =>
                     /\ predictions.items[i].predicted_amount = None
                     /\ predictions.items[i].predicted_date = None
           /\ Done => /\ outcome = "DONE"
                      /\ response.debug_response.d = tool_debug
                      /\ response.error = None

W_C8 ==
    /\ Done /\ tool = CASH /\ outcome = "DONE" /\ QueryReturned
    /\ Len(locals.customers_with_notes) = 3
    /\ Cardinality({i \in 1..3 : AnalysisFailed(calls.analysis_log[i])}) = 1
    /\ Len(response.debug_response.d.executed_query_results.items) = 3

\* C9: once the connection or the query execution has raised, the pipeline is in
\* ERROR, no format LLM call was made, the format slots are null and the query
\* was tried once
Inv_C9 ==
    calls.db_errors > 0 =>
        /\ Done /\ outcome = "ERROR"
        /\ calls.llm_format = 0
        /\ Get(response.debug_response.d, FormatRequestSlot) = None
        /\ Get(response.debug_response.d, FormatResponseSlot) = None
        /\ calls.db_connect = 1
        /\ calls.db_execute <= 1
        /\ calls.db_errors = 1

W_C9 ==
    /\ Done /\ outcome = "ERROR" /\ tool = BOND
    /\ calls.db_errors = 1 /\ calls.db_execute = 1 /\ calls.llm_format = 0

\* C10: when the standardize response of the bond tool is not parseable JSON the
\* standardized arguments are the empty mapping, the pipeline goes on to the
\* query stage, the query has no maturity clause and no bound parameter, and
\* only a database error can lead to ERROR
Inv_C10 ==
    (/\ tool = BOND
     /\ tool_debug.standardize_response # None
     /\ ~JsonLoads(tool_debug.standardize_response.s).ok) =>
        /\ locals.standardized_params = DictV(EmptyDict)
        /\ pc \in {"query", "format", "fmt_llm", "done"}
        /\ outcome = "ERROR" => calls.db_errors = 1
        /\ Done => calls.db_connect = 1
        /\ "query" \in DOMAIN locals =>
              /\ ~Contains(locals.query, "AND h.maturity_date")
              /\ ~Contains(locals.query, "%s")
              /\ locals.query_params = <<>>

W_C10 ==
    /\ Done /\ tool = BOND /\ outcome = "DONE"
    /\ StartsWith(tool_debug.standardize_response.s, LlmErrorPrefix)
    /\ calls.db_execute = 1
    /\ locals.query_params = <<>>

\* the raw text the standardize LLM call returned, once it has returned
StdReturned ==
    /\ tool \in Tools
    /\ IF tool = HOLDINGS THEN "standardize_response" \in DOMAIN locals
       ELSE IF tool = PRODUCT
            THEN Get(tool_debug, "step1_extract_ids.llm_response") # None
            ELSE Get(tool_debug, "standardize_response") # None
StdResponseText ==
    IF tool = HOLDINGS THEN locals.standardize_response
    ELSE IF tool = PRODUCT THEN tool_debug["step1_extract_ids.llm_response"].s
    ELSE tool_debug.standardize_response.s
NotAnIdList(text) == ~JsonLoads(text).ok \/ JsonLoads(text).v.ty # "list"

\* C11: an identifier-required tool whose standardize output is not parseable
\* JSON, or is JSON that is not a list, ends with its could-not-resolve message
\* and not with the message of the except branch
Claim_C11 ==
    (Done /\ IdentifierRequired /\ StdReturned /\ NotAnIdList(StdResponseText)) =>
        /\ outcome = "STOP"
        /\ response.result = StrV(Unresolved)

Returned(fns) == pc = "returned" /\ locals.fn \in fns
Gateways == {"call_claude", "call_bedrock_llm"}
SentinelPrefix == IF locals.fn = "call_claude" THEN LlmErrorPrefix ELSE BedrockErrorPrefix

\* C12: a gateway call raises nothing past its handler; when the remote call or
\* the decoding of its response failed it returns the sentinel prefix followed by
\* the cause, and otherwise the generated text
Inv_C12 ==
    Returned(Gateways) =>
        /\ ~locals.raised
        /\ locals.o = "ok" => locals.returned = locals.input
        /\ locals.o # "ok" =>
              /\ StartsWith(locals.returned, SentinelPrefix)
              /\ locals.returned = SentinelPrefix \o LlmCause(locals.o)

W_C12 ==
    /\ Returned({"call_claude"}) /\ locals.o = "body_not_json"
    /\ ~locals.raised
    /\ locals.returned = LlmErrorPrefix \o JsonErr

GatewayFailed(text) ==
    \E o \in LlmOutcomes \ {"ok"} : text = LlmErrorPrefix \o LlmCause(o)

\* C13: a pipeline whose query returned at least one row and whose format LLM
\* call was made ends in DONE with a null error field and with the text the
\* gateway returned as its result, also when that text is the stringified error
Inv_C13 ==
    (Done /\ QueryReturned /\ locals[FetchedKey] # <<>> /\ calls.llm_format > 0) =>
        /\ outcome = "DONE"
        /\ response.error = None
        /\ response.result = Get(response.debug_response.d, FormatResponseSlot)
        /\ \/ response.result.s \in FormatTexts
           \/ GatewayFailed(response.result.s)

W_C13 ==
    /\ Done /\ tool = PRODUCT /\ outcome = "DONE"
    /\ Len(locals.customers) = 2
    /\ response.result = StrV(LlmErrorPrefix \o LlmCause("invoke_error"))
    /\ response.error = None

PromptClients == {"system_prompt.get_system_prompt", "database.get_system_prompt"}
PreFallbackText == "Convert input to standard format. Respond in JSON only."
PostFallbackText == "Format the results in a readable text format."

\* C14: on a miss (404) or a transport failure a prompt lookup returns the pre
\* fallback text for a pre key and the post fallback text for a post key, for
\* each of the six pre and post keys of the tools
Claim_C14 ==
    (/\ Returned(PromptClients)
     /\ locals.o \in {"404", "exception"}
     /\ locals.input \in PreKeys \cup PostKeys) =>
        locals.returned = IF locals.input \in PreKeys THEN PreFallbackText
                          ELSE PostFallbackText

\* C15: a prompt lookup raises nothing and returns a text for every key and
\* every answer of the remote store: the stored prompt on 200, and otherwise the
\* text of its handler (a fallback text, or the message naming the key)
Inv_C15 ==
    Returned(PromptClients) =>
        /\ ~locals.raised
        /\ locals.o = "200" => locals.returned = "prompt<" \o locals.input \o ">"
        /\ locals.o # "200" =>
              IF locals.fn = "database.get_system_prompt"
              THEN locals.returned \in {PreFallbackText, PostFallbackText}
              ELSE StartsWith(locals.returned,
                              "system prompt unavailable (key: " \o locals.input)

W_C15 ==
    /\ Returned({"database.get_system_prompt"})
    /\ locals.o = "200_no_prompt_text"
    /\ ~locals.raised
    /\ locals.returned = PreFallbackText

\* C16: the stages of an invocation run in the order standardize, query, format:
\* a database connection is opened only after the one standardize LLM call has
\* returned, and a per-row analysis, a format prompt lookup or a format LLM call
\* happens only after the one query has returned its rows
Inv_C16 ==
    /\ pc \in {"std_prompt", "std_llm"} =>
          /\ calls.llm_standardize = 0
          /\ calls.db_connect = 0 /\ calls.llm_analysis = 0 /\ calls.llm_format = 0
    /\ calls.db_connect > 0 => /\ calls.llm_standardize = 1
                               /\ StdReturned
    /\ (pc \in {"analysis", "fmt_llm"} \/ calls.llm_analysis > 0 \/ calls.llm_format > 0) =>
          /\ calls.llm_standardize = 1
          /\ QueryReturned
          /\ calls.db_connect = 1 /\ calls.db_execute = 1 /\ calls.db_errors = 0

W_C16 ==
    /\ Done /\ tool = CASH /\ outcome = "DONE"
    /\ calls.llm_standardize = 1 /\ calls.db_execute = 1
    /\ calls.llm_analysis = 2 /\ calls.llm_format = 1

Slot(k) == Get(tool_debug, k)

\* C17: in every state of a bond-maturity or cash-inflow invocation the trace
\* slots are filled in stage order: format_request only after
\* executed_query_results, executed_query_results only after executed_query,
\* executed_query only after standardize_prompt and standardize_response
Inv_C17 ==
    tool \in {BOND, CASH} =>
        /\ Slot("format_request") # None => Slot("executed_query_results") # None
        /\ Slot("executed_query_results") # None => Slot("executed_query") # None
        /\ Slot("executed_query") # None =>
              /\ Slot("standardize_prompt") # None
              /\ Slot("standardize_response") # None
        /\ Done => response.debug_response.d = tool_debug

W_C17 ==
    /\ tool = CASH /\ pc = "fmt_llm"
    /\ Slot("format_request") # None
    /\ Slot("executed_query_results") = ListV(locals.predictions)
    /\ Slot("executed_query") # None
    /\ Slot("standardize_response") # None

StdParameterSlot ==
    IF tool = PRODUCT THEN "step1_extract_ids.result" ELSE "standardize_parameter"

\* C18: the trace of every returned response of an invocation whose standardize
\* LLM call returned has the combined prompt, the raw response and the parsed or
\* error-annotated parameter representation, whatever the terminal outcome
Claim_C18 ==
    (Done /\ StdReturned) =>
        /\ Get(response.debug_response.d, StdPromptSlot) # None
        /\ Get(response.debug_response.d, StdResponseSlot) # None
        /\ Get(response.debug_response.d, StdParameterSlot) # None

\* C19: the trace of the response of an invocation whose query returned n rows
\* has results_count equal to n
Claim_C19 ==
    (Done /\ QueryReturned) =>
        Get(response.debug_response.d, "results_count") = IntV(Len(locals[FetchedKey]))

ElapsedSlot == IF tool = PRODUCT THEN "total_execution_time_ms" ELSE "execution_time_ms"

\* C20: every returned response, whether the pipeline ended in DONE, in the
\* empty-identifier stop or in ERROR, has in its trace a non-null total elapsed
\* time, the time from the start of the invocation to its return
Inv_C20 ==
    Done =>
        /\ outcome \in {"DONE", "STOP", "ERROR"}
        /\ Get(response.debug_response.d, ElapsedSlot) # None
        /\ Get(response.debug_response.d, ElapsedSlot) = FloatV(now - locals.start_time)
        /\ now - locals.start_time > 0

W_C20 ==
    /\ Done /\ tool = PRODUCT /\ outcome = "ERROR"
    /\ response.debug_response.d["total_execution_time_ms"] = FloatV(now - locals.start_time)
    /\ now - locals.start_time >= 3

\* C21: a cash-inflow invocation that reached the query stage with a non-empty
\* identifier set issues one row-fetch query, then one analysis call per fetched
\* row in row order; after the loop llm_analysis_calls = customers_analyzed =
\* the number of fetched rows and predictions_found <= llm_analysis_calls
Inv_C21 ==
    (tool = CASH /\ calls.db_connect > 0) =>
        /\ Truthy(locals.customer_ids)
        /\ calls.db_connect = 1 /\ calls.db_execute <= 1
        /\ ~QueryReturned => calls.llm_analysis = 0
        /\ QueryReturned =>
             LET rows == locals.customers_with_notes
             IN /\ calls.db_execute = 1
                /\ calls.llm_analysis <= Len(rows)
                /\ pc = "analysis" =>
                     /\ calls.llm_analysis = locals.i - 1
                     /\ Len(locals.individual_analysis) = locals.i - 1
                     /\ \A j \in 1..(locals.i - 1) :
                          locals.individual_analysis[j].customer_id = rows[j].customer_id
                /\ pc \in {"format", "fmt_llm", "done"} =>
                     /\ calls.llm_analysis = Len(rows)
                     /\ tool_debug.llm_analysis_calls = IntV(Len(rows))
                     /\ tool_debug.customers_analyzed = IntV(Len(rows))
                     /\ tool_debug.predictions_found.n <= tool_debug.llm_analysis_calls.n
                     /\ \A j \in 1..Len(rows) :
                          tool_debug.individual_analysis.items[j].customer_id
                              = rows[j].customer_id

W_C21 ==
    /\ Done /\ tool = CASH /\ QueryReturned
    /\ Len(locals.customers_with_notes) = 3
    /\ calls.db_execute = 1 /\ calls.llm_analysis = 3
    /\ tool_debug.llm_analysis_calls = IntV(3)
    /\ tool_debug.predictions_found = IntV(2)

\* C22: an invocation of a single-query tool makes at most one standardize LLM
\* call, opens at most one connection, executes at most one query and makes at
\* most one format LLM call, also after one of them has failed
Inv_C22 ==
    tool \in {BOND, HOLDINGS, PRODUCT} =>
        /\ calls.llm_standardize <= 1
        /\ calls.db_connect <= 1
        /\ calls.db_execute <= 1
        /\ calls.llm_format <= 1
        /\ calls.llm_analysis = 0
        /\ Done => calls.llm_standardize = 1

W_C22 ==
    /\ Done /\ tool = PRODUCT /\ outcome = "DONE"
    /\ GatewayFailed(tool_debug["step1_extract_ids.llm_response"].s) = FALSE
    /\ GatewayFailed(response.result.s)
    /\ calls.llm_standardize = 1 /\ calls.db_execute = 1 /\ calls.llm_format = 1

\* C23: when an invocation has terminated, in DONE or in ERROR, no database
\* connection that it opened is still open
Claim_C23 ==
    Done => open_conns = 0

\* C27: in the bond-maturity and cash-inflow pipelines, a standardize response that
\* is valid JSON but not a JSON object ends the invocation in ERROR before any
\* database query; the standardize prompt, response and parameter slots are
\* populated and results_count is 0
NonObjectJson(text) == JsonLoads(text).ok /\ JsonLoads(text).v.ty # "dict"

Inv_C27 ==
    (/\ tool \in {BOND, CASH}
     /\ Slot("standardize_response") # None
     /\ NonObjectJson(Slot("standardize_response").s)) =>
        /\ Done /\ outcome = "ERROR"
        /\ calls.db_connect = 0 /\ calls.db_execute = 0
        /\ Slot("executed_query") = None
        /\ Slot("standardize_prompt").ty = "str"
        /\ Slot("standardize_parameter")
             = StrV(PyStrOf(JsonLoads(Slot("standardize_response").s).v))
        /\ Slot("results_count") = IntV(0)
        /\ response.error.ty = "str"

W_C27 ==
    /\ Done /\ tool = BOND /\ outcome = "ERROR"
    /\ Slot("standardize_response") = StrV("[1, 2]")
    /\ Slot("standardize_parameter") = StrV("[1, 2]")
    /\ calls.db_connect = 0

\* C28: in the cash-inflow pipeline an empty or absent customer_ids list (also
\* after a JSON parse failure) opens no connection, fetches no analysis prompt
\* and makes no analysis call; customers_analyzed, llm_analysis_calls and
\* predictions_found are 0, executed_query is null, and the response is the
\* fixed 'no sales notes found' sentence with a null error field
NoCustomerIds ==
    tool = CASH /\ "customer_ids" \in DOMAIN locals /\ ~Truthy(locals.customer_ids)

Inv_C28 ==
    NoCustomerIds =>
        /\ pc \in {"query", "format", "done"}
        /\ calls.db_connect = 0 /\ calls.db_execute = 0
        /\ calls.prompt = 1
        /\ calls.llm_analysis = 0 /\ calls.llm_format = 0
        /\ Slot("executed_query") = None
        /\ pc \in {"format", "done"} =>
             /\ Slot("customers_analyzed") = IntV(0)
             /\ Slot("llm_analysis_calls") = IntV(0)
             /\ Slot("predictions_found") = IntV(0)
        /\ Done =>
             /\ outcome = "DONE"
             /\ response.result = StrV(CashNoResults)
             /\ response.error = None

W_C28 ==
    /\ Done /\ NoCustomerIds
    /\ ~JsonLoads(Slot("standardize_response").s).ok
    /\ response.result = StrV(CashNoResults)
    /\ Slot("customers_analyzed") = IntV(0)

\* C29: execute_bond_maturity_query adds a filter clause only for a truthy field:
\* days_until_maturity 0, null or absent adds no day-count clause, and with no
\* truthy field the query is the unfiltered bond-holder query; the bound parameter
\* list is exactly the truthy values among maturity_date_from and maturity_date_to
\* in that order, and its length is the number of placeholders in the query text
CountPlaceholders(text) ==
    Cardinality({i \in 1..(Len(text) - 1) : SubSeq(text, i, i + 1) = "%s"})

TruthyOnly(values) == SelectSeq(values, Truthy)

Inv_C29 ==
    (tool = BOND /\ "query" \in DOMAIN locals) =>
        LET query == locals.query
            days == locals.days_until_maturity
            from == locals.maturity_date_from
            to == locals.maturity_date_to
        IN /\ Slot("executed_query") = StrV(query)
           /\ Contains(query, "CURRENT_DATE + INTERVAL") <=> Truthy(days)
           /\ Contains(query, "h.maturity_date >= %s") <=> Truthy(from)
           /\ Contains(query, "h.maturity_date <= %s") <=> Truthy(to)
           /\ (~Truthy(days) /\ ~Truthy(from) /\ ~Truthy(to)) =>
                query = BondBaseQuery \o " ORDER BY h.maturity_date ASC"
           /\ locals.query_params = TruthyOnly(<<from, to>>)
           /\ Len(locals.query_params) = CountPlaceholders(query)

W_C29 ==
    /\ tool = BOND /\ "query" \in DOMAIN locals
    /\ locals.days_until_maturity = IntV(0)
    /\ locals.query_params = <<>>
    /\ ~Contains(locals.query, "INTERVAL")
    /\ "customers" \in DOMAIN locals /\ Len(locals.customers) = MaxRows

\* C26: every response of mcp_endpoint in main.py carries the id of the request
\* it answers, on every path: initialize, tools/list, tools/call of a known tool
\* (success or tool-level error), unknown tool, unknown method and the
\* endpoint's own exception handler
Responded(server) == pc = "responded" /\ locals.server = server

Inv_C26 ==
    Responded(MAIN) => response.id = IntV(locals.request.id)

W_C26 ==
    /\ Responded(MAIN)
    /\ locals.request.id = 3 /\ locals.request.method = "tools/call"
    /\ tool = BOND /\ locals.t = "error_response"
    /\ response.error = StrV(ExecuteError)
    /\ response.id = IntV(3)

\* C30: in each server variant every tool name that tools/list advertises is
\* accepted by tools/call of the same server: the call of an advertised name is
\* never answered with the 'Unknown tool' error
Endpoint(server, request, t) ==
    IF server = MAIN THEN main_mcp_endpoint(request, t)
    ELSE crm_mcp_server_mcp_endpoint(request, t)

Advertised(server) ==
    LET listed == Endpoint(server, MCPRequest(1, "tools/list", DictV(EmptyDict)),
                           "response").result.d.tools.items
    IN {listed[i].d.name.s : i \in DOMAIN listed}

Claim_C30 ==
    (/\ pc = "responded" /\ locals.request.method = "tools/call"
     /\ tool \in Advertised(locals.server)) =>
        response.error # StrV(UnknownTool(StrV(tool)))

\* C24: given the same input, the same prompt-store answers, the same LLM Gateway
\* answers and the same Query Executor answer, two invocations of a pipeline
\* return the same result text and the same error field
SameExternals(f, a) ==
    /\ f.tool = a.tool /\ f.params = a.params
    /\ DOMAIN f.locals = DOMAIN a.locals
    /\ \A k \in DOMAIN f.locals \ {"start_time"} : f.locals[k] = a.locals[k]
    /\ Get(f.tool_debug, "standardize_response") = Get(a.tool_debug, "standardize_response")
    /\ Get(f.tool_debug, "format_response") = Get(a.tool_debug, "format_response")

Repeated == Together /\ First.pc = "done" /\ SameExternals(First, calls.alone)

Inv_C24 ==
    Repeated =>
        /\ First.response.result = calls.alone.response.result
        /\ First.response.error = calls.alone.response.error

W_C24 ==
    /\ Repeated /\ calls.suspensions = 0
    /\ First.tool = BOND /\ First.outcome = "DONE"
    /\ First.response.result = StrV("Customer IDs: 1, 2")
    /\ calls.alone.response.result = StrV("Customer IDs: 1, 2")
    /\ First.locals.start_time > calls.alone.locals.start_time

\* C25: two invocations interleaved at their suspension points do not interfere:
\* the response and the trace of each hold only what its own stages produced,
\* and they equal, but for the elapsed time, those of the same invocation served
\* alone with the same external answers
TimeSlots == {"execution_time_ms"}
Timeless(resp) ==
    [resp EXCEPT !.debug_response =
         DictV([k \in DOMAIN @.d \ TimeSlots |-> @.d[k]])]

OwnData(f) ==
    LET td == f.tool_debug
    IN /\ f.response.debug_response = DictV(td)
       /\ DOMAIN td = DOMAIN (IF f.tool = BOND THEN BondInitDebug ELSE CashInitDebug)
       /\ td.standardize_prompt # None =>
            /\ "system_prompt" \in DOMAIN f.locals
            /\ td.standardize_prompt = StrV(f.locals.system_prompt \o "\n\nUser Input: "
                                            \o RawInput(f.params))
       /\ td.format_request # None =>
            /\ "full_prompt" \in DOMAIN f.locals
            /\ td.format_request = StrV(f.locals.full_prompt)
       /\ td.executed_query # None =>
            /\ "query" \in DOMAIN f.locals
            /\ td.executed_query = StrV(f.locals.query)
       /\ "customers" \in DOMAIN f.locals =>
            /\ td.executed_query_results = ListV(f.locals.customers)
            /\ td.results_count = IntV(Len(f.locals.customers))
       /\ (f.outcome = "DONE" /\ "predictions" \in DOMAIN f.locals) =>
            /\ td.results_count = IntV(Len(f.locals.predictions))
            /\ "individual_analysis" \in DOMAIN f.locals =>
                 /\ td.individual_analysis = ListV(f.locals.individual_analysis)
                 /\ td.executed_query_results = ListV(f.locals.predictions)
       /\ td.format_response # None => f.response.result = td.format_response

Inv_C25 ==
    Together =>
        /\ First.pc = "done" => OwnData(First)
        /\ Second.pc = "done" => OwnData(Second)
        /\ Repeated => Timeless(First.response) = Timeless(calls.alone.response)

W_C25 ==
    /\ Repeated /\ calls.suspensions > 0
    /\ First.tool = BOND /\ First.outcome = "DONE"
    /\ First.tool_debug.format_response # None
    /\ Second.tool = CASH /\ Second.pc = "done"
    /\ First.tool_debug.execution_time_ms.ms > calls.alone.tool_debug.execution_time_ms.ms

====
